---- MODULE Spec2Model ----
(***************************************************************************)
(* Remote playback coordination of lidify: the socket.io server            *)
(* (backend/src/websocket/remotePlayback.ts) and the client agent          *)
(* (RemotePlaybackProvider, frontend remote-playback-context).             *)
(*                                                                         *)
(* Time is counted in minutes.  Volume is counted in tenths (0.8 is 8).    *)
(***************************************************************************)
EXTENDS Integers, Sequences, FiniteSets, TLC

VARIABLES
    activeDevices,     \* the server's Map deviceId -> PlaybackDevice, in insertion order
    userActivePlayer,  \* the server's Map userId -> deviceId | null
    connected,         \* the sockets whose connection is open
    now,               \* the server clock (Date.now()), in minutes
    lastSweep,         \* the clock value at which the cleanup interval last ran
    emits,             \* what the last server handler emitted, in order
    lastOp,            \* the last handler that ran, with its input
    activePlayerId,    \* per client: the activePlayerId React state, as last set
    activePlayerIdRef, \* per client: activePlayerIdRef.current, assigned at each render
    timer,             \* per client: the pending 50 ms timer of transferPlayback
    heartbeatDue,      \* per client: the 30 s heartbeat interval is due in this minute
    isCapturingRef,    \* RemoteVolumeCapture: isCapturingRef.current
    audioRef,          \* RemoteVolumeCapture: audioRef.current, the silent audio element
    audioContextRef,   \* RemoteVolumeCapture: audioContextRef.current is set
    lastVolumeRef,     \* RemoteVolumeCapture: lastVolumeRef.current
    captureDeps,       \* RemoteVolumeCapture: what the last run of its effect depended on
    upq,               \* per socket: client -> server messages in flight, in order
    inbox              \* per socket: server -> client messages in flight, in order

serverVars == <<activeDevices, userActivePlayer, connected, now, lastSweep>>
obsVars    == <<emits, lastOp>>
captureVars == <<isCapturingRef, audioRef, audioContextRef, lastVolumeRef, captureDeps>>
clientVars == <<activePlayerId, activePlayerIdRef, timer, heartbeatDue, captureVars>>
netVars    == <<upq, inbox>>
vars == <<activeDevices, userActivePlayer, connected, now, lastSweep,
          emits, lastOp, activePlayerId, activePlayerIdRef, timer, heartbeatDue,
          isCapturingRef, audioRef, audioContextRef, lastVolumeRef, captureDeps,
          upq, inbox>>

----------------------------------------------------------------------------
(* Bounds of the model *)

MaxTime == 6      \* the clock stops advancing here
MaxInbox == 2     \* messages in flight to one client

(* Program constants *)

StaleMinutes == 5        \* 5 * 60 * 1000 ms
SweepMinutes == 1        \* 60 * 1000 ms
DefaultVolume == 10      \* volume: 1

----------------------------------------------------------------------------
(* Values *)

null == "null"
undefined == "undefined"

Users == {"u1", "u2"}
Sockets == {"s1", "s2", "s3"}
DeviceIds == {"d1", "d2", "d3"}
Names == {"n1", "n2"}

\* the user the authentication middleware resolved for the connection
UserOfSocket(s) == IF s = "s3" THEN "u2" ELSE "u1"

\* the deviceId the client behind a socket keeps in its local storage
ClientDeviceId(s) == CASE s = "s1" -> "d1" [] s = "s2" -> "d2" [] OTHER -> "d3"

\* the device ids the clients of the same user have, other than the client's own
SiblingDeviceIds(s) ==
    {ClientDeviceId(t) : t \in {x \in Sockets : x # s /\ UserOfSocket(x) = UserOfSocket(s)}}

\* a playback snapshot as a device reports it
Snapshot(p, t, c, v) == [isPlaying |-> p, currentTrack |-> t, currentTime |-> c, volume |-> v]

PlayingSnapshot == Snapshot(TRUE, "T", 30, 8)
IdleSnapshot == Snapshot(FALSE, null, 0, DefaultVolume)
ReportedSnapshots == {PlayingSnapshot, IdleSnapshot}

NoPayload == [k |-> undefined]

----------------------------------------------------------------------------
(* The registry: a JavaScript Map, kept as the sequence of its values in     *)
(* insertion order.                                                          *)

NoDevice == [deviceId |-> undefined]

RECURSIVE IndexOfDevice(_, _, _)
IndexOfDevice(reg, d, i) ==
    IF i > Len(reg) THEN 0
    ELSE IF reg[i].deviceId = d THEN i
    ELSE IndexOfDevice(reg, d, i + 1)

\* activeDevices.get(deviceId)
getDevice(reg, d) ==
    LET i == IndexOfDevice(reg, d, 1) IN IF i = 0 THEN NoDevice ELSE reg[i]

\* activeDevices.set(deviceId, device): a present key keeps its position
MapSetAppendsMutant(reg, d, device) == Append(reg, device)
MapSet(reg, d, device) ==
    LET i == IndexOfDevice(reg, d, 1) IN
    IF i = 0 THEN Append(reg, device) ELSE [reg EXCEPT ![i] = device]

\* activeDevices.delete(deviceId)
MapDelete(reg, d) == SelectSeq(reg, LAMBDA e : e.deviceId # d)

\* Array.from(activeDevices.values()).filter(d => d.userId === userId)
getUserDevices(reg, u) == SelectSeq(reg, LAMBDA e : e.userId = u)

\* the first device, in Map order, that holds the socket id
RECURSIVE FirstWithSocket(_, _, _)
FirstWithSocket(reg, s, i) ==
    IF i > Len(reg) THEN NoDevice
    ELSE IF reg[i].socketId = s THEN reg[i]
    ELSE FirstWithSocket(reg, s, i + 1)

getDeviceBySocketId(reg, s) == FirstWithSocket(reg, s, 1)

\* userActivePlayer.get(userId) ?? null
getActivePlayer(ap, u) == ap[u]

\* userActivePlayer.set(userId, deviceId)
setActivePlayer(ap, u, d) == [ap EXCEPT ![u] = d]

----------------------------------------------------------------------------
(* Emission.  A message names its event, the sockets socket.io delivers it   *)
(* to, and its body.                                                         *)

Msg(ev, rcpt, body) == [ev |-> ev, rcpt |-> rcpt, body |-> body]

\* io.to(`user:${userId}`): every open connection of the user joined the room
Room(u) == {s \in Sockets : connected[s] /\ UserOfSocket(s) = u}

\* io.to(socketId): the room of one socket id
ToSocket(sid) == {s \in Sockets : s = sid /\ connected[s]}

\* socket.to(`user:${userId}`): the room without the sender
RoomExcept(u, s) == Room(u) \ {s}

DeviceSummary(e) ==
    [deviceId |-> e.deviceId, deviceName |-> e.deviceName, isPlaying |-> e.isPlaying,
     currentTrack |-> e.currentTrack, currentTime |-> e.currentTime, volume |-> e.volume]

Summaries(seq) == [i \in 1..Len(seq) |-> DeviceSummary(seq[i])]

broadcastDeviceList(reg, u) == Msg("devices:list", Room(u), Summaries(getUserDevices(reg, u)))

ErrorTo(s, text) == Msg("playback:error", {s}, [message |-> text])

RemoteCommand(rcpt, body) == Msg("playback:remoteCommand", rcpt, body)

----------------------------------------------------------------------------
(* The server's handlers, each as the result it computes from the registry   *)
(* reg, the authority map ap, the sending socket s and the message: the new  *)
(* registry, the new authority map and the messages emitted, in order.       *)

Result(reg, ap, out) == [reg |-> reg, ap |-> ap, emits |-> out]

NewDevice(s, d, n) ==
    [socketId |-> s, deviceId |-> d, deviceName |-> n, userId |-> UserOfSocket(s),
     isPlaying |-> FALSE, currentTrack |-> null, currentTime |-> 0,
     volume |-> DefaultVolume, lastSeen |-> now]

\* device:register that keeps the snapshot of an entry it replaces
registerKeepsSnapshotMutant(reg, ap, s, d, n) ==
    LET old == getDevice(reg, d)
        new == IF old = NoDevice THEN NewDevice(s, d, n)
               ELSE [NewDevice(s, d, n) EXCEPT !.isPlaying = old.isPlaying,
                                               !.currentTrack = old.currentTrack,
                                               !.currentTime = old.currentTime,
                                               !.volume = old.volume]
        reg2 == MapSet(reg, d, new)
    IN Result(reg2, ap, <<broadcastDeviceList(reg2, UserOfSocket(s))>>)

\* socket.on("device:register")
registerResult(reg, ap, s, d, n) ==
    LET reg2 == MapSet(reg, d, NewDevice(s, d, n)) IN
    Result(reg2, ap, <<broadcastDeviceList(reg2, UserOfSocket(s))>>)

\* playback:state that does not compare the device's user with the sender's
stateNoOwnerCheckMutant(reg, ap, s, d, snap) ==
    LET device == getDevice(reg, d) IN
    IF device # NoDevice
    THEN LET updated == [device EXCEPT !.isPlaying = snap.isPlaying,
                                       !.currentTrack = snap.currentTrack,
                                       !.currentTime = snap.currentTime,
                                       !.volume = snap.volume,
                                       !.lastSeen = now]
         IN Result(MapSet(reg, d, updated), ap,
                   <<Msg("playback:stateUpdate", RoomExcept(UserOfSocket(s), s),
                         [deviceId |-> d, deviceName |-> device.deviceName,
                          isPlaying |-> snap.isPlaying, currentTrack |-> snap.currentTrack,
                          currentTime |-> snap.currentTime, volume |-> snap.volume])>>)
    ELSE Result(reg, ap, <<>>)

\* playback:state published with io.to, which includes the sender
stateToRoomMutant(reg, ap, s, d, snap) ==
    LET device == getDevice(reg, d) IN
    IF device # NoDevice /\ device.userId = UserOfSocket(s)
    THEN LET updated == [device EXCEPT !.isPlaying = snap.isPlaying,
                                       !.currentTrack = snap.currentTrack,
                                       !.currentTime = snap.currentTime,
                                       !.volume = snap.volume,
                                       !.lastSeen = now]
         IN Result(MapSet(reg, d, updated), ap,
                   <<Msg("playback:stateUpdate", Room(UserOfSocket(s)),
                         [deviceId |-> d, deviceName |-> device.deviceName,
                          isPlaying |-> snap.isPlaying, currentTrack |-> snap.currentTrack,
                          currentTime |-> snap.currentTime, volume |-> snap.volume])>>)
    ELSE Result(reg, ap, <<>>)

\* socket.on("playback:state")
stateResult(reg, ap, s, d, snap) ==
    LET device == getDevice(reg, d) IN
    IF device # NoDevice /\ device.userId = UserOfSocket(s)
    THEN LET updated == [device EXCEPT !.isPlaying = snap.isPlaying,
                                       !.currentTrack = snap.currentTrack,
                                       !.currentTime = snap.currentTime,
                                       !.volume = snap.volume,
                                       !.lastSeen = now]
         IN Result(MapSet(reg, d, updated), ap,
                   <<Msg("playback:stateUpdate", RoomExcept(UserOfSocket(s), s),
                         [deviceId |-> d, deviceName |-> device.deviceName,
                          isPlaying |-> snap.isPlaying, currentTrack |-> snap.currentTrack,
                          currentTime |-> snap.currentTime, volume |-> snap.volume])>>)
    ELSE Result(reg, ap, <<>>)

\* playback:command that does not compare the target's user with the sender's
commandNoOwnerCheckMutant(reg, ap, s, target, cmd, payload) ==
    LET targetDevice == getDevice(reg, target) IN
    IF targetDevice = NoDevice
    THEN Result(reg, ap, <<ErrorTo(s, "Device not found or not authorized")>>)
    ELSE Result(reg, ap,
                <<RemoteCommand(ToSocket(targetDevice.socketId),
                                [command |-> cmd, payload |-> payload,
                                 fromDeviceId |-> getDeviceBySocketId(reg, s).deviceId])>>)
\* playback:command forwarded to the whole user room instead of the target's socket
commandToRoomMutant(reg, ap, s, target, cmd, payload) ==
    LET targetDevice == getDevice(reg, target) IN
    IF targetDevice = NoDevice \/ targetDevice.userId # UserOfSocket(s)
    THEN Result(reg, ap, <<ErrorTo(s, "Device not found or not authorized")>>)
    ELSE Result(reg, ap,
                <<RemoteCommand(Room(UserOfSocket(s)),
                                [command |-> cmd, payload |-> payload,
                                 fromDeviceId |-> getDeviceBySocketId(reg, s).deviceId])>>)

\* socket.on("playback:command")
commandResult(reg, ap, s, target, cmd, payload) ==
    LET targetDevice == getDevice(reg, target) IN
    IF targetDevice = NoDevice \/ targetDevice.userId # UserOfSocket(s)
    THEN Result(reg, ap, <<ErrorTo(s, "Device not found or not authorized")>>)
    ELSE Result(reg, ap,
                <<RemoteCommand(ToSocket(targetDevice.socketId),
                                [command |-> cmd, payload |-> payload,
                                 fromDeviceId |-> getDeviceBySocketId(reg, s).deviceId])>>)

\* socket.on("playback:requestState")
requestStateResult(reg, ap, s, d) ==
    LET targetDevice == getDevice(reg, d) IN
    IF targetDevice # NoDevice /\ targetDevice.userId = UserOfSocket(s)
    THEN Result(reg, ap, <<Msg("playback:stateRequest", ToSocket(targetDevice.socketId),
                               NoPayload)>>)
    ELSE Result(reg, ap, <<>>)

\* socket.on("devices:list")
devicesListResult(reg, ap, s) ==
    LET mine == getUserDevices(reg, UserOfSocket(s)) IN
    Result(reg, ap,
           <<Msg("devices:list", {s},
                 [i \in 1..Len(mine) |->
                     [deviceId |-> mine[i].deviceId, deviceName |-> mine[i].deviceName,
                      isPlaying |-> mine[i].isPlaying, currentTrack |-> mine[i].currentTrack,
                      currentTime |-> mine[i].currentTime, volume |-> mine[i].volume,
                      isCurrentDevice |-> (mine[i].socketId = s)]])>>)

\* the payload of the synthetic transferPlayback command
TransferPayload(fromDevice) ==
    [track |-> fromDevice.currentTrack, currentTime |-> fromDevice.currentTime,
     isPlaying |-> fromDevice.isPlaying, volume |-> fromDevice.volume]

PauseTransferred == [command |-> "pause", payload |-> [reason |-> "transferred"]]

\* playback:transfer that pauses the source before it starts the destination
transferPauseFirstMutant(reg, ap, s, to, withState) ==
    LET fromDevice == getDeviceBySocketId(reg, s)
        toDevice == getDevice(reg, to)
    IN
    IF fromDevice = NoDevice \/ toDevice = NoDevice \/ toDevice.userId # UserOfSocket(s)
    THEN Result(reg, ap, <<ErrorTo(s, "Transfer failed: device not found")>>)
    ELSE IF withState /\ fromDevice.currentTrack # null
    THEN Result(reg, ap,
                <<RemoteCommand(ToSocket(fromDevice.socketId), PauseTransferred),
                  RemoteCommand(ToSocket(toDevice.socketId),
                                [command |-> "transferPlayback",
                                 payload |-> TransferPayload(fromDevice),
                                 fromDeviceId |-> fromDevice.deviceId])>>)
    ELSE Result(reg, ap, <<>>)

\* socket.on("playback:transfer")
transferResult(reg, ap, s, to, withState) ==
    LET fromDevice == getDeviceBySocketId(reg, s)
        toDevice == getDevice(reg, to)
    IN
    IF fromDevice = NoDevice \/ toDevice = NoDevice \/ toDevice.userId # UserOfSocket(s)
    THEN Result(reg, ap, <<ErrorTo(s, "Transfer failed: device not found")>>)
    ELSE IF withState /\ fromDevice.currentTrack # null
    THEN Result(reg, ap,
                <<RemoteCommand(ToSocket(toDevice.socketId),
                                [command |-> "transferPlayback",
                                 payload |-> TransferPayload(fromDevice),
                                 fromDeviceId |-> fromDevice.deviceId]),
                  RemoteCommand(ToSocket(fromDevice.socketId), PauseTransferred)>>)
    ELSE Result(reg, ap, <<>>)

\* playback:setActivePlayer announced with socket.to, which leaves the requester out
setActivePlayerToOthersMutant(reg, ap, s, d) ==
    LET device == getDevice(reg, d) IN
    IF d # null /\ device # NoDevice /\ device.userId # UserOfSocket(s)
    THEN Result(reg, ap, <<ErrorTo(s, "Device not authorized")>>)
    ELSE Result(reg, setActivePlayer(ap, UserOfSocket(s), d),
                <<Msg("playback:activePlayer", RoomExcept(UserOfSocket(s), s),
                      [deviceId |-> d])>>)

\* playback:setActivePlayer that reports the error and sets the authority all the same
setActivePlayerErrorThenSetMutant(reg, ap, s, d) ==
    LET device == getDevice(reg, d) IN
    IF d # null /\ device # NoDevice /\ device.userId # UserOfSocket(s)
    THEN Result(reg, setActivePlayer(ap, UserOfSocket(s), d),
                <<ErrorTo(s, "Device not authorized")>>)
    ELSE Result(reg, setActivePlayer(ap, UserOfSocket(s), d),
                <<Msg("playback:activePlayer", Room(UserOfSocket(s)), [deviceId |-> d])>>)

\* playback:setActivePlayer that turns down a deviceId the registry does not hold
setActivePlayerRequiresDeviceMutant(reg, ap, s, d) ==
    LET device == getDevice(reg, d) IN
    IF d # null /\ (device = NoDevice \/ device.userId # UserOfSocket(s))
    THEN Result(reg, ap, <<ErrorTo(s, "Device not authorized")>>)
    ELSE Result(reg, setActivePlayer(ap, UserOfSocket(s), d),
                <<Msg("playback:activePlayer", Room(UserOfSocket(s)), [deviceId |-> d])>>)

\* socket.on("playback:setActivePlayer")
setActivePlayerResult(reg, ap, s, d) ==
    LET device == getDevice(reg, d) IN
    IF d # null /\ device # NoDevice /\ device.userId # UserOfSocket(s)
    THEN Result(reg, ap, <<ErrorTo(s, "Device not authorized")>>)
    ELSE Result(reg, setActivePlayer(ap, UserOfSocket(s), d),
                <<Msg("playback:activePlayer", Room(UserOfSocket(s)), [deviceId |-> d])>>)

\* disconnect that also withdraws the authority of the device that left
disconnectClearsAuthorityMutant(reg, ap, s) ==
    LET device == getDeviceBySocketId(reg, s) IN
    IF device # NoDevice
    THEN LET reg2 == MapDelete(reg, device.deviceId)
             list == broadcastDeviceList(reg2, UserOfSocket(s))
         IN Result(reg2,
                   IF ap[UserOfSocket(s)] = device.deviceId
                   THEN setActivePlayer(ap, UserOfSocket(s), null) ELSE ap,
                   <<[list EXCEPT !.rcpt = @ \ {s}]>>)
    ELSE Result(reg, ap, <<>>)

\* disconnect that, finding no device bound to the closed connection, removes
\* the first device of the connection's user
disconnectRemovesUsersDeviceMutant(reg, ap, s) ==
    LET mine == getUserDevices(reg, UserOfSocket(s))
        device == IF getDeviceBySocketId(reg, s) # NoDevice THEN getDeviceBySocketId(reg, s)
                  ELSE IF mine # <<>> THEN mine[1] ELSE NoDevice
    IN
    IF device # NoDevice
    THEN LET reg2 == MapDelete(reg, device.deviceId)
             list == broadcastDeviceList(reg2, UserOfSocket(s))
         IN Result(reg2, ap, <<[list EXCEPT !.rcpt = @ \ {s}]>>)
    ELSE Result(reg, ap, <<>>)

\* socket.on("disconnect"): the socket has left its rooms when the handler runs
disconnectResult(reg, ap, s) ==
    LET device == getDeviceBySocketId(reg, s) IN
    IF device # NoDevice
    THEN LET reg2 == MapDelete(reg, device.deviceId)
             list == broadcastDeviceList(reg2, UserOfSocket(s))
         IN Result(reg2, ap, <<[list EXCEPT !.rcpt = @ \ {s}]>>)
    ELSE Result(reg, ap, <<>>)

\* device:heartbeat that does not compare the device's user with the sender's
heartbeatNoOwnerCheckMutant(reg, ap, s, d) ==
    LET device == getDevice(reg, d) IN
    IF device # NoDevice
    THEN Result(MapSet(reg, d, [device EXCEPT !.lastSeen = now]), ap, <<>>)
    ELSE Result(reg, ap, <<>>)

\* socket.on("device:heartbeat")
heartbeatResult(reg, ap, s, d) ==
    LET device == getDevice(reg, d) IN
    IF device # NoDevice /\ device.userId = UserOfSocket(s)
    THEN Result(MapSet(reg, d, [device EXCEPT !.lastSeen = now]), ap, <<>>)
    ELSE Result(reg, ap, <<>>)

\* a stale threshold of zero: every device not seen at this very minute is stale
IsStaleNoThresholdMutant(e) == e.lastSeen < now

\* device.lastSeen.getTime() < Date.now() - 5 * 60 * 1000
IsStale(e) == e.lastSeen < now - StaleMinutes

\* the setInterval callback that removes stale devices
sweepResult(reg, ap) ==
    Result(SelectSeq(reg, LAMBDA e : ~IsStale(e)), ap, <<>>)

----------------------------------------------------------------------------
(* State after initializeWebSocket: empty maps, no connection.               *)

NoTimer == [toDeviceId |-> undefined]

\* audioRef.current = null; the capture component not mounted; no volume known
NoAudio == [listener |-> FALSE]
Unmounted == [mounted |-> FALSE]
NoVolume == 0 - 1

\* no handler output is waiting to leave the server
IdleOp == [op |-> "idle", sock |-> undefined, arg |-> NoPayload, prev |-> NoPayload]
Idle == lastOp = IdleOp

Init ==
    /\ activeDevices = <<>>
    /\ userActivePlayer = [u \in Users |-> null]
    /\ connected = [s \in Sockets |-> FALSE]
    /\ now = 0
    /\ lastSweep = 0
    /\ emits = <<>>
    /\ lastOp = IdleOp
    /\ activePlayerId = [s \in Sockets |-> null]
    /\ activePlayerIdRef = [s \in Sockets |-> null]
    /\ timer = [s \in Sockets |-> NoTimer]
    /\ heartbeatDue = [s \in Sockets |-> FALSE]
    /\ isCapturingRef = FALSE
    /\ audioRef = NoAudio
    /\ audioContextRef = FALSE
    /\ lastVolumeRef = DefaultVolume
    /\ captureDeps = Unmounted
    /\ upq = [s \in Sockets |-> <<>>]
    /\ inbox = [s \in Sockets |-> <<>>]

\* One run of a server handler, to completion: the maps take the result; the
\* emitted messages, the handler's input and the maps it started from are
\* recorded.  The output of one handler leaves the server (Flush, Transmit)
\* before the next event is handled; a message that has left may stay in
\* flight for any time.
ServerStep(op, s, arg, res) ==
    /\ Idle
    /\ activeDevices' = res.reg
    /\ userActivePlayer' = res.ap
    /\ emits' = res.emits
    /\ lastOp' = [op |-> op, sock |-> s, arg |-> arg,
                  prev |-> [reg |-> activeDevices, ap |-> userActivePlayer]]

OnRegister(s, d, n) ==
    ServerStep("device:register", s, [deviceId |-> d, deviceName |-> n],
               registerResult(activeDevices, userActivePlayer, s, d, n))

OnState(s, d, snap) ==
    ServerStep("playback:state", s, [deviceId |-> d, state |-> snap],
               stateResult(activeDevices, userActivePlayer, s, d, snap))

OnCommand(s, target, cmd, payload) ==
    ServerStep("playback:command", s,
               [targetDeviceId |-> target, command |-> cmd, payload |-> payload],
               commandResult(activeDevices, userActivePlayer, s, target, cmd, payload))

OnRequestState(s, d) ==
    ServerStep("playback:requestState", s, [deviceId |-> d],
               requestStateResult(activeDevices, userActivePlayer, s, d))

OnDevicesList(s) ==
    ServerStep("devices:list", s, NoPayload,
               devicesListResult(activeDevices, userActivePlayer, s))

OnTransfer(s, to, withState) ==
    ServerStep("playback:transfer", s, [toDeviceId |-> to, withState |-> withState],
               transferResult(activeDevices, userActivePlayer, s, to, withState))

OnSetActivePlayer(s, d) ==
    ServerStep("playback:setActivePlayer", s, [deviceId |-> d],
               setActivePlayerResult(activeDevices, userActivePlayer, s, d))

OnDisconnect(s) ==
    ServerStep("disconnect", s, NoPayload,
               disconnectResult(activeDevices, userActivePlayer, s))

OnHeartbeat(s, d) ==
    ServerStep("device:heartbeat", s, [deviceId |-> d],
               heartbeatResult(activeDevices, userActivePlayer, s, d))

----------------
(* The server against any authenticated connection: every message arrives    *)
(* with any content.                                                         *)

\* a socket id is not issued again while the registry still holds it
Connect(s) ==
    /\ ~connected[s]
    /\ \A i \in 1..Len(activeDevices) : activeDevices[i].socketId # s
    /\ Idle
    /\ connected' = [connected EXCEPT ![s] = TRUE]
    /\ UNCHANGED <<activeDevices, userActivePlayer, now, lastSweep, obsVars, clientVars, netVars>>

Disconnect(s) ==
    /\ connected[s]
    /\ OnDisconnect(s)
    /\ connected' = [connected EXCEPT ![s] = FALSE]
    /\ UNCHANGED <<now, lastSweep, clientVars, netVars>>

Register(s, d, n) ==
    /\ connected[s]
    /\ OnRegister(s, d, n)
    /\ UNCHANGED <<connected, now, lastSweep, clientVars, netVars>>

State(s, d, snap) ==
    /\ connected[s]
    /\ OnState(s, d, snap)
    /\ UNCHANGED <<connected, now, lastSweep, clientVars, netVars>>

Command(s, target, cmd, payload) ==
    /\ connected[s]
    /\ OnCommand(s, target, cmd, payload)
    /\ UNCHANGED <<connected, now, lastSweep, clientVars, netVars>>

RequestState(s, d) ==
    /\ connected[s]
    /\ OnRequestState(s, d)
    /\ UNCHANGED <<connected, now, lastSweep, clientVars, netVars>>

DevicesList(s) ==
    /\ connected[s]
    /\ OnDevicesList(s)
    /\ UNCHANGED <<connected, now, lastSweep, clientVars, netVars>>

Transfer(s, to, withState) ==
    /\ connected[s]
    /\ OnTransfer(s, to, withState)
    /\ UNCHANGED <<connected, now, lastSweep, clientVars, netVars>>

SetActivePlayer(s, d) ==
    /\ connected[s]
    /\ OnSetActivePlayer(s, d)
    /\ UNCHANGED <<connected, now, lastSweep, clientVars, netVars>>

Heartbeat(s, d) ==
    /\ connected[s]
    /\ OnHeartbeat(s, d)
    /\ UNCHANGED <<connected, now, lastSweep, clientVars, netVars>>

\* the emitted messages leave the server; their receivers are not followed here
Flush ==
    /\ ~Idle
    /\ emits' = <<>>
    /\ lastOp' = IdleOp
    /\ UNCHANGED <<serverVars, clientVars, netVars>>

\* the registrations tried: a socket with two device ids, a device id
\* registered over two connections of one user, and over another user's connection
RegPairs == {<<"s1", "d1">>, <<"s1", "d2">>, <<"s2", "d2">>, <<"s3", "d2">>, <<"s3", "d3">>}

CmdPairs == {<<"next", NoPayload>>, <<"seek", [k |-> "time", time |-> 30]>>}

Next ==
    \/ \E s \in Sockets : Connect(s)
    \/ \E s \in Sockets : Disconnect(s)
    \/ \E p \in RegPairs : Register(p[1], p[2], "n1")
    \/ \E s \in Sockets, d \in DeviceIds : State(s, d, PlayingSnapshot)
    \/ \E s \in Sockets, d \in DeviceIds, c \in CmdPairs : Command(s, d, c[1], c[2])
    \/ \E s \in Sockets, d \in DeviceIds : RequestState(s, d)
    \/ \E s \in Sockets : DevicesList(s)
    \/ \E s \in Sockets, d \in DeviceIds, w \in BOOLEAN : Transfer(s, d, w)
    \/ \E s \in Sockets, d \in DeviceIds \cup {null} : SetActivePlayer(s, d)
    \/ \E s \in Sockets, d \in DeviceIds : Heartbeat(s, d)
    \/ Flush

Spec == Init /\ [][Next]_vars

----------------------------------------------------------------------------
(* The liveness sweeper and the clock.                                       *)

\* the clock advances by a minute, once the cleanup due at this minute has run
Tick ==
    /\ Idle
    /\ now < MaxTime
    /\ now - lastSweep < SweepMinutes
    /\ now' = now + 1
    /\ UNCHANGED <<activeDevices, userActivePlayer, connected, lastSweep, obsVars,
                   clientVars, netVars>>

\* the setInterval callback, every 60 s
Sweep ==
    /\ now - lastSweep >= SweepMinutes
    /\ ServerStep("sweep", undefined, NoPayload, sweepResult(activeDevices, userActivePlayer))
    /\ lastSweep' = now
    /\ UNCHANGED <<connected, now, clientVars, netVars>>

\* each client registers, reports and heartbeats under its own device id
OwnPairs == {<<s, ClientDeviceId(s)>> : s \in Sockets}

\* the two connections of user u1
SiblingSockets == {s \in Sockets : UserOfSocket(s) = "u1"}

NextSweep ==
    \/ \E s \in SiblingSockets : Connect(s)
    \/ \E s \in SiblingSockets : Disconnect(s)
    \/ \E s \in SiblingSockets : Register(s, ClientDeviceId(s), "n1")
    \/ \E s \in SiblingSockets : State(s, ClientDeviceId(s), PlayingSnapshot)
    \/ \E s \in SiblingSockets : Heartbeat(s, ClientDeviceId(s))
    \/ Tick
    \/ Sweep
    \/ Flush

SpecSweep == Init /\ [][NextSweep]_vars

----------------------------------------------------------------------------
(* Every handler under the clock: one connection of each of the two users,   *)
(* each registering its own device and naming its own or the other's.        *)

TimedSockets == {"s1", "s3"}
TimedDevices == {ClientDeviceId(s) : s \in TimedSockets}

NextTimed ==
    \/ \E s \in TimedSockets : Connect(s)
    \/ \E s \in TimedSockets : Disconnect(s)
    \/ \E s \in TimedSockets : Register(s, ClientDeviceId(s), "n1")
    \/ \E s \in TimedSockets, d \in TimedDevices : State(s, d, PlayingSnapshot)
    \/ \E s \in TimedSockets, d \in TimedDevices : Command(s, d, "next", NoPayload)
    \/ \E s \in TimedSockets, d \in TimedDevices : RequestState(s, d)
    \/ \E s \in TimedSockets : DevicesList(s)
    \/ \E s \in TimedSockets, d \in TimedDevices : Transfer(s, d, TRUE)
    \/ \E s \in TimedSockets, d \in TimedDevices \cup {null} : SetActivePlayer(s, d)
    \/ \E s \in TimedSockets, d \in TimedDevices : Heartbeat(s, d)
    \/ Tick
    \/ Sweep
    \/ Flush

SpecTimed == Init /\ [][NextTimed]_vars

----------------------------------------------------------------------------
(* Registration under several names and over several connections.            *)

NextRegistry ==
    \/ \E s \in Sockets : Connect(s)
    \/ \E s \in Sockets : Disconnect(s)
    \/ \E p \in RegPairs, n \in Names : Register(p[1], p[2], n)
    \/ \E p \in OwnPairs : State(p[1], p[2], PlayingSnapshot)
    \/ \E s \in Sockets : DevicesList(s)
    \/ Flush

SpecRegistry == Init /\ [][NextRegistry]_vars

----------------------------------------------------------------------------
(* The client agent (RemotePlaybackProvider), one behind each socket, and    *)
(* the transport between it and the server.                                  *)

\* isActivePlayer = activePlayerId === null || activePlayerId === currentDeviceId,
\* as the render that follows the last setActivePlayerId computes it
isActivePlayer(s) == activePlayerId[s] = null \/ activePlayerId[s] = ClientDeviceId(s)

RegisterMsg(d, n) == [type |-> "device:register", deviceId |-> d, deviceName |-> n]
ListMsg == [type |-> "devices:list"]
TransferMsg(to, w) == [type |-> "playback:transfer", toDeviceId |-> to, withState |-> w]
SetActivePlayerMsg(d) == [type |-> "playback:setActivePlayer", deviceId |-> d]

\* socket.emit on the client: the messages are in flight to the server; a
\* client emits again once its earlier messages have arrived
Send(s, msgs) ==
    /\ upq[s] = <<>>
    /\ upq' = [upq EXCEPT ![s] = @ \o msgs]

\* socket.on("connect"): register this device, request the device list
ClientConnect(s) ==
    /\ Idle
    /\ ~connected[s]
    /\ connected' = [connected EXCEPT ![s] = TRUE]
    /\ upq' = [upq EXCEPT ![s] = <<RegisterMsg(ClientDeviceId(s), "n1"), ListMsg>>]
    /\ UNCHANGED <<activeDevices, userActivePlayer, now, lastSweep, obsVars, clientVars, inbox>>

\* the connection closes: what was in flight on it is lost, the server's
\* disconnect handler runs
ClientDisconnect(s) ==
    /\ connected[s]
    /\ OnDisconnect(s)
    /\ connected' = [connected EXCEPT ![s] = FALSE]
    /\ upq' = [upq EXCEPT ![s] = <<>>]
    /\ inbox' = [inbox EXCEPT ![s] = <<>>]
    /\ UNCHANGED <<now, lastSweep, clientVars>>

\* transferPlayback that emits its two requests at once, before the local
\* authority is moved and without invoking the stop hook
transferPlaybackEmitFirstMutant(s, to, w) ==
    /\ Idle
    /\ connected[s]
    /\ timer[s] = NoTimer
    /\ Send(s, <<TransferMsg(to, w), SetActivePlayerMsg(to)>>)
    /\ UNCHANGED <<serverVars, obsVars, clientVars, connected, inbox>>

\* transferPlayback(toDeviceId, withState): authority is set locally first, the
\* stop hook is invoked, the two requests are emitted 50 ms later.  What the
\* call read and invoked is recorded.
TransferPlayback(s, to, w) ==
    /\ Idle
    /\ connected[s]
    /\ timer[s] = NoTimer
    /\ activePlayerId' = [activePlayerId EXCEPT ![s] = to]
    /\ timer' = [timer EXCEPT ![s] = [toDeviceId |-> to, withState |-> w]]
    /\ lastOp' = [op |-> "transferPlayback", sock |-> s,
                  arg |-> [toDeviceId |-> to, withState |-> w, hooks |-> <<"stopPlayback">>],
                  prev |-> [activePlayerId |-> activePlayerId[s],
                            activePlayerIdRef |-> activePlayerIdRef[s]]]
    /\ emits' = <<>>
    /\ UNCHANGED <<serverVars, netVars, activePlayerIdRef, heartbeatDue, captureVars>>

\* the setTimeout callback of transferPlayback
TimerFires(s) ==
    /\ Idle
    /\ timer[s] # NoTimer
    /\ timer' = [timer EXCEPT ![s] = NoTimer]
    /\ IF connected[s]
       THEN Send(s, <<TransferMsg(timer[s].toDeviceId, timer[s].withState),
                      SetActivePlayerMsg(timer[s].toDeviceId)>>)
       ELSE upq' = upq
    /\ UNCHANGED <<serverVars, obsVars, activePlayerId, activePlayerIdRef, heartbeatDue,
                   captureVars, inbox>>

\* becomeActivePlayer() as a transfer of the device to itself, with state
becomeActivePlayerAsTransferMutant(s) ==
    /\ Idle
    /\ connected[s]
    /\ activePlayerId' = [activePlayerId EXCEPT ![s] = ClientDeviceId(s)]
    /\ Send(s, <<TransferMsg(ClientDeviceId(s), TRUE), SetActivePlayerMsg(ClientDeviceId(s))>>)
    /\ UNCHANGED <<serverVars, obsVars, activePlayerIdRef, timer, heartbeatDue,
                   captureVars, inbox>>

\* becomeActivePlayer()
BecomeActivePlayer(s) ==
    /\ Idle
    /\ connected[s]
    /\ activePlayerId' = [activePlayerId EXCEPT ![s] = ClientDeviceId(s)]
    /\ Send(s, <<SetActivePlayerMsg(ClientDeviceId(s))>>)
    /\ UNCHANGED <<serverVars, obsVars, activePlayerIdRef, timer, heartbeatDue,
                   captureVars, inbox>>

\* broadcastState(state): the report arrives behind the client's earlier
\* messages and the server's playback:state handler runs
BroadcastState(s, snap) ==
    /\ connected[s]
    /\ upq[s] = <<>>
    /\ OnState(s, ClientDeviceId(s), snap)
    /\ UNCHANGED <<connected, now, lastSweep, clientVars, netVars>>

\* a playback:activePlayer handler that takes a null push, too, as this device
\* becoming the active player
activePlayerHooksNullBecomesActiveMutant(myDeviceId, deviceId) ==
    (IF deviceId = myDeviceId \/ deviceId = null THEN <<"becomeActivePlayer">> ELSE <<>>)
    \o (IF deviceId # myDeviceId /\ deviceId # null THEN <<"stopPlayback">> ELSE <<>>)

\* the hooks the playback:activePlayer handler invokes for the pushed
\* deviceId, in order (the audio layer registers both hooks when it mounts)
activePlayerHooks(myDeviceId, deviceId) ==
    (IF deviceId = myDeviceId THEN <<"becomeActivePlayer">> ELSE <<>>)
    \o (IF deviceId # myDeviceId /\ deviceId # null THEN <<"stopPlayback">> ELSE <<>>)

\* socket.on("playback:activePlayer") and socket.on("playback:remoteCommand"):
\* the push sets activePlayerId and invokes the hooks; the command is handed
\* to the audio layer.  What the handler read and invoked is recorded.
ClientRecv(s) ==
    /\ Idle
    /\ inbox[s] # <<>>
    /\ inbox' = [inbox EXCEPT ![s] = Tail(@)]
    /\ LET m == Head(inbox[s])
           hooks == IF m.ev = "playback:activePlayer"
                    THEN activePlayerHooks(ClientDeviceId(s), m.body.deviceId)
                    ELSE <<>>
       IN /\ IF m.ev = "playback:activePlayer"
             THEN activePlayerId' = [activePlayerId EXCEPT ![s] = m.body.deviceId]
             ELSE activePlayerId' = activePlayerId
          /\ lastOp' = [op |-> "recv", sock |-> s,
                        arg |-> [ev |-> m.ev, body |-> m.body, hooks |-> hooks],
                        prev |-> [activePlayerId |-> activePlayerId[s],
                                  activePlayerIdRef |-> activePlayerIdRef[s]]]
    /\ emits' = <<>>
    /\ UNCHANGED <<serverVars, activePlayerIdRef, timer, heartbeatDue, captureVars, upq>>

\* the server takes the next message of a connection
Arrives(s, type) ==
    /\ connected[s]
    /\ upq[s] # <<>>
    /\ Head(upq[s]).type = type
    /\ upq' = [upq EXCEPT ![s] = Tail(@)]
    /\ UNCHANGED <<connected, now, lastSweep, clientVars, inbox>>

SrvRegister(s) ==
    /\ Arrives(s, "device:register")
    /\ OnRegister(s, Head(upq[s]).deviceId, Head(upq[s]).deviceName)

SrvDevicesList(s) ==
    /\ Arrives(s, "devices:list")
    /\ OnDevicesList(s)

SrvTransfer(s) ==
    /\ Arrives(s, "playback:transfer")
    /\ OnTransfer(s, Head(upq[s]).toDeviceId, Head(upq[s]).withState)

SrvSetActivePlayer(s) ==
    /\ Arrives(s, "playback:setActivePlayer")
    /\ OnSetActivePlayer(s, Head(upq[s]).deviceId)

\* the events a client handler of the agent acts on
ClientEvents == {"playback:activePlayer", "playback:remoteCommand"}

RECURSIVE Deliver(_, _)
Deliver(box, out) ==
    IF out = <<>> THEN box
    ELSE Deliver([s \in Sockets |->
                     IF s \in Head(out).rcpt /\ Head(out).ev \in ClientEvents
                     THEN Append(box[s], [ev |-> Head(out).ev, body |-> Head(out).body])
                     ELSE box[s]],
                 Tail(out))

\* the emitted messages leave the server, each to the inbox of its receivers,
\* in the order of emission
Transmit ==
    /\ ~Idle
    /\ inbox' = Deliver(inbox, emits)
    /\ \A s \in Sockets : Len(inbox'[s]) <= MaxInbox
    /\ emits' = <<>>
    /\ lastOp' = IdleOp
    /\ UNCHANGED <<serverVars, clientVars, upq>>

NextProto ==
    \/ \E s \in SiblingSockets : ClientConnect(s)
    \/ \E s \in SiblingSockets : ClientDisconnect(s)
    \/ \E s \in SiblingSockets : \E to \in SiblingDeviceIds(s) : TransferPlayback(s, to, TRUE)
    \/ \E s \in SiblingSockets : TimerFires(s)
    \/ \E s \in SiblingSockets : BecomeActivePlayer(s)
    \/ \E s \in SiblingSockets : BroadcastState(s, PlayingSnapshot)
    \/ \E s \in SiblingSockets : ClientRecv(s)
    \/ \E s \in SiblingSockets : SrvRegister(s)
    \/ \E s \in SiblingSockets : SrvDevicesList(s)
    \/ \E s \in SiblingSockets : SrvTransfer(s)
    \/ \E s \in SiblingSockets : SrvSetActivePlayer(s)
    \/ Transmit

SpecProto == Init /\ [][NextProto]_vars

----------------------------------------------------------------------------
(* Authority requests of two devices that stay connected: both register      *)
(* first, then each claims the authority or transfers it, in any order.      *)

\* every device of the user is connected and registered
AllPresent ==
    \A s \in SiblingSockets :
        /\ connected[s]
        /\ getDevice(activeDevices, ClientDeviceId(s)) # NoDevice
        /\ getDevice(activeDevices, ClientDeviceId(s)).socketId = s

NextConverge ==
    \/ \E s \in SiblingSockets : ClientConnect(s)
    \/ \E s \in SiblingSockets : AllPresent /\ BecomeActivePlayer(s)
    \/ \E s \in SiblingSockets : \E to \in SiblingDeviceIds(s) :
          AllPresent /\ TransferPlayback(s, to, TRUE)
    \/ \E s \in SiblingSockets : TimerFires(s)
    \/ \E s \in SiblingSockets : ClientRecv(s)
    \/ \E s \in SiblingSockets : SrvRegister(s)
    \/ \E s \in SiblingSockets : SrvDevicesList(s)
    \/ \E s \in SiblingSockets : SrvTransfer(s)
    \/ \E s \in SiblingSockets : SrvSetActivePlayer(s)
    \/ Transmit

SpecConverge == Init /\ [][NextConverge]_vars

----------------------------------------------------------------------------
(* A device that heartbeats as the agent does, beside one whose heartbeats   *)
(* may stay away, under the clock and the cleanup interval.                  *)

\* the client whose heartbeat interval keeps running, and the one whose
\* interval may stay away (a suspended tab, throttled timers) and resume
LiveSocket == "s1"
SilentSocket == "s2"

\* a device:heartbeat of the client behind s for its own deviceId arrives
\* behind the client's earlier messages and is handled by the server
SendHeartbeat(s) ==
    /\ connected[s]
    /\ upq[s] = <<>>
    /\ OnHeartbeat(s, ClientDeviceId(s))

\* setInterval(..., 30000) of the agent: the heartbeat is emitted if the
\* socket is connected
HeartbeatInterval(s) ==
    /\ Idle
    /\ heartbeatDue[s]
    /\ heartbeatDue' = [heartbeatDue EXCEPT ![s] = FALSE]
    /\ IF connected[s]
       THEN SendHeartbeat(s)
       ELSE UNCHANGED <<activeDevices, userActivePlayer, obsVars>>
    /\ UNCHANGED <<connected, now, lastSweep, activePlayerId, activePlayerIdRef, timer,
                   captureVars, netVars>>

\* a minute passes, once the cleanup due at this minute has run and the
\* heartbeat interval of the live client has fired; the interval is due again
MinutePasses ==
    /\ Idle
    /\ now < MaxTime
    /\ now - lastSweep < SweepMinutes
    /\ ~heartbeatDue[LiveSocket]
    /\ now' = now + 1
    /\ heartbeatDue' = [heartbeatDue EXCEPT ![LiveSocket] = TRUE]
    /\ UNCHANGED <<activeDevices, userActivePlayer, connected, lastSweep, obsVars,
                   activePlayerId, activePlayerIdRef, timer, captureVars, netVars>>

\* the interval of the silent client fires, at some time
LateHeartbeat(s) ==
    /\ SendHeartbeat(s)
    /\ UNCHANGED <<connected, now, lastSweep, clientVars, netVars>>

NextLive ==
    \/ \E s \in SiblingSockets : ClientConnect(s)
    \/ \E s \in SiblingSockets : ClientDisconnect(s)
    \/ \E s \in SiblingSockets : SrvRegister(s)
    \/ \E s \in SiblingSockets : SrvDevicesList(s)
    \/ LateHeartbeat(SilentSocket)
    \/ HeartbeatInterval(LiveSocket)
    \/ MinutePasses
    \/ Sweep
    \/ Transmit

SpecLive == Init /\ [][NextLive]_vars

----------------------------------------------------------------------------
(* The remote-aware controls (RemoteAwareAudioControlsProvider) on top of    *)
(* the client agent.  The refs the getters read are assigned in the body of  *)
(* the provider, that is at each render; setActivePlayerId only schedules    *)
(* one.                                                                      *)

\* getActivePlayerId() and getIsActivePlayer(): the refs of the last render
\* a getter that computes isActivePlayer from the state the last handler set,
\* while getActivePlayerId still reads the ref of the last render
getIsActivePlayerFromStateMutant(s) == isActivePlayer(s)

getActivePlayerId(s) == activePlayerIdRef[s]
getIsActivePlayer(s) ==
    activePlayerIdRef[s] = null \/ activePlayerIdRef[s] = ClientDeviceId(s)

\* the re-render React runs after setActivePlayerIdState: the refs take the state
Render(s) ==
    /\ Idle
    /\ activePlayerIdRef[s] # activePlayerId[s]
    /\ activePlayerIdRef' = [activePlayerIdRef EXCEPT ![s] = activePlayerId[s]]
    /\ UNCHANGED <<serverVars, obsVars, activePlayerId, timer, heartbeatDue,
                   captureVars, netVars>>

\* the control actions the provider wraps
ControlActions ==
    {"play", "pause", "resume", "next", "previous", "seek", "setVolume",
     "skipForward", "skipBackward", "playTrack", "playTracks"}

\* the command name each action is forwarded under
WireCommand(a) ==
    CASE a = "resume" -> "play"
      [] a = "previous" -> "prev"
      [] a = "setVolume" -> "volume"
      [] a = "skipForward" -> "seek"
      [] a = "skipBackward" -> "seek"
      [] a = "playTracks" -> "setQueue"
      [] OTHER -> a

\* the payload each action is forwarded with (seek to 30, volume 0.5, skips
\* of the default 30 seconds, track T)
WirePayload(a) ==
    CASE a = "seek" -> [k |-> "time", time |-> 30]
      [] a = "setVolume" -> [k |-> "volume", volume |-> 5]
      [] a = "skipForward" -> [k |-> "relative", relative |-> 30]
      [] a = "skipBackward" -> [k |-> "relative", relative |-> 0 - 30]
      [] a = "playTrack" -> [k |-> "track", track |-> "T"]
      [] a = "playTracks" -> [k |-> "tracks", tracks |-> <<"T">>, startIndex |-> 0]
      [] OTHER -> NoPayload

CommandMsg(target, cmd, payload) ==
    [type |-> "playback:command", targetDeviceId |-> target, command |-> cmd,
     payload |-> payload]

\* sendCommand(targetDeviceId, command, payload): nothing is sent without a connection
sendCommand(isConnected, target, cmd, payload) ==
    IF isConnected THEN <<CommandMsg(target, cmd, payload)>> ELSE <<>>

\* a control action that runs on the local engine and is forwarded as well
executeAndForwardMutant(currentIsActivePlayer, currentActivePlayerId, isConnected, a) ==
    IF currentActivePlayerId # null
    THEN [local |-> TRUE,
          sent |-> sendCommand(isConnected, currentActivePlayerId,
                               WireCommand(a), WirePayload(a))]
    ELSE [local |-> TRUE, sent |-> <<>>]

\* executeOrForward, and the same three branches of skipForward, skipBackward,
\* playTrack and playTracks: whether the local engine runs the action, and
\* what is sent
executeOrForward(currentIsActivePlayer, currentActivePlayerId, isConnected, a) ==
    IF currentIsActivePlayer
    THEN [local |-> TRUE, sent |-> <<>>]
    ELSE IF currentActivePlayerId # null
    THEN [local |-> FALSE,
          sent |-> sendCommand(isConnected, currentActivePlayerId,
                               WireCommand(a), WirePayload(a))]
    ELSE [local |-> TRUE, sent |-> <<>>]

\* a control action is dispatched on the client behind s; what the getters
\* returned and whether the local engine ran are recorded
Control(s, a) ==
    /\ Idle
    /\ upq[s] = <<>>
    /\ LET r == executeOrForward(getIsActivePlayer(s), getActivePlayerId(s), connected[s], a)
       IN /\ upq' = [upq EXCEPT ![s] = r.sent]
          /\ lastOp' = [op |-> "control", sock |-> s,
                        arg |-> [action |-> a, local |-> r.local],
                        prev |-> [isActivePlayer |-> getIsActivePlayer(s),
                                  activePlayerId |-> getActivePlayerId(s)]]
    /\ emits' = <<>>
    /\ UNCHANGED <<serverVars, clientVars, inbox>>

SrvCommand(s) ==
    /\ Arrives(s, "playback:command")
    /\ OnCommand(s, Head(upq[s]).targetDeviceId, Head(upq[s]).command, Head(upq[s]).payload)

\* two clients of one user take the authority in turn; the controls are
\* dispatched on the first, which also loses and regains its connection
Controller == "s1"

\* the actions dispatched: one of each wrapper shape (executeOrForward with a
\* renamed command, executeOrForward with a payload, skipForward, playTrack).
\* The server and the receiver handle command and payload as opaque values.
DispatchedActions == {"resume", "seek", "skipForward", "playTrack"}

NextClient ==
    \/ \E s \in SiblingSockets : ClientConnect(s)
    \/ ClientDisconnect(Controller)
    \/ \E s \in SiblingSockets : BecomeActivePlayer(s)
    \/ \E s \in SiblingSockets : ClientRecv(s)
    \/ Render(Controller)
    \/ \E a \in DispatchedActions : Control(Controller, a)
    \/ \E s \in SiblingSockets : SrvRegister(s)
    \/ \E s \in SiblingSockets : SrvDevicesList(s)
    \/ \E s \in SiblingSockets : SrvSetActivePlayer(s)
    \/ SrvCommand(Controller)
    \/ Transmit

SpecClient == Init /\ [][NextClient]_vars

----------------------------------------------------------------------------
(* Two clients of one user that take the authority in turn, while the       *)
(* authority is also reset to null over their connections; controls are     *)
(* dispatched on the first.                                                  *)

NextHooks ==
    \/ \E s \in SiblingSockets : ClientConnect(s)
    \/ \E s \in SiblingSockets : BecomeActivePlayer(s)
    \/ \E s \in SiblingSockets : SetActivePlayer(s, null)
    \/ \E s \in SiblingSockets : ClientRecv(s)
    \/ Render(Controller)
    \/ Control(Controller, "pause")
    \/ \E s \in SiblingSockets : SrvRegister(s)
    \/ \E s \in SiblingSockets : SrvDevicesList(s)
    \/ \E s \in SiblingSockets : SrvSetActivePlayer(s)
    \/ SrvCommand(Controller)
    \/ Transmit

SpecHooks == Init /\ [][NextHooks]_vars

----------------------------------------------------------------------------
(* RemoteVolumeCapture: the component that keeps a silent audio element     *)
(* while this device controls a remote player, to catch the hardware volume *)
(* buttons.  Its refs are the state; its effect runs after the first render *)
(* and after every render that changed one of its dependencies, the cleanup *)
(* of the previous run first.                                               *)

\* the volumes the active player reports, and no activePlayerState at all
RemoteVolumes == {5, 8, DefaultVolume}

\* what the effect depends on: isActivePlayer, activePlayerId and the track
\* and volume of activePlayerState (undefined, NoVolume without one)
CaptureProps ==
    {[isActivePlayer |-> a = null \/ a = "d1", activePlayerId |-> a,
      currentTrack |-> tr, volume |-> v] :
        a \in {null, "d1", "d2"}, tr \in {undefined, null, "T"},
        v \in RemoteVolumes \cup {NoVolume}}

\* the refs of the component
CaptureRefs ==
    [isCapturing |-> isCapturingRef, audio |-> audioRef,
     audioContext |-> audioContextRef, lastVolume |-> lastVolumeRef]

\* document.createElement("audio") with its volumechange listener attached
AudioElement(v) == [volume |-> v, listener |-> TRUE]

\* !isActivePlayer && !!activePlayerId && !!activePlayerState?.currentTrack
shouldCapture(props) ==
    /\ ~props.isActivePlayer
    /\ props.activePlayerId # null
    /\ props.currentTrack \notin {undefined, null}

\* the function the effect returns: the element and the context are released
effectCleanup(r) == [r EXCEPT !.audio = NoAudio, !.audioContext = FALSE]

\* the start and stop branches of the effect
startOrStop(r, props) ==
    IF shouldCapture(props) /\ ~r.isCapturing
    THEN LET v == IF props.volume = NoVolume THEN DefaultVolume ELSE props.volume IN
         IF r.audio = NoAudio
         THEN [isCapturing |-> TRUE, audio |-> AudioElement(v), audioContext |-> TRUE,
               lastVolume |-> v]
         ELSE [r EXCEPT !.isCapturing = TRUE, !.audioContext = TRUE]
    ELSE IF ~shouldCapture(props) /\ r.isCapturing
    THEN [r EXCEPT !.isCapturing = FALSE, !.audio = NoAudio, !.audioContext = FALSE]
    ELSE r

\* the last part of the effect: the element follows the remote volume, the
\* listener taken off for the assignment and put back
syncVolume(r, props) ==
    IF r.audio # NoAudio /\ props.volume # NoVolume /\ r.audio.volume # props.volume
    THEN [r EXCEPT !.audio = AudioElement(props.volume), !.lastVolume = props.volume]
    ELSE r

\* the body of the effect
captureEffect(r, props) == syncVolume(startOrStop(r, props), props)

SetCaptureRefs(r) ==
    /\ isCapturingRef' = r.isCapturing
    /\ audioRef' = r.audio
    /\ audioContextRef' = r.audioContext
    /\ lastVolumeRef' = r.lastVolume

CaptureFrame ==
    UNCHANGED <<serverVars, obsVars, activePlayerId, activePlayerIdRef, timer,
                heartbeatDue, netVars>>

\* the component mounts: the effect runs for the first time
CaptureMount(props) ==
    /\ captureDeps = Unmounted
    /\ SetCaptureRefs(captureEffect(CaptureRefs, props))
    /\ captureDeps' = props
    /\ CaptureFrame

\* a render with a changed dependency: the cleanup of the last run, then the
\* effect again
CaptureRerender(props) ==
    /\ captureDeps # Unmounted
    /\ props # captureDeps
    /\ SetCaptureRefs(captureEffect(effectCleanup(CaptureRefs), props))
    /\ captureDeps' = props
    /\ CaptureFrame

\* the component unmounts: the cleanup runs, the refs go with the component
CaptureUnmount ==
    /\ captureDeps # Unmounted
    /\ SetCaptureRefs([isCapturing |-> FALSE, audio |-> NoAudio, audioContext |-> FALSE,
                       lastVolume |-> DefaultVolume])
    /\ captureDeps' = Unmounted
    /\ CaptureFrame

\* a hardware volume button moves the volume of the silent element and
\* handleVolumeChange runs: a change is remembered (and forwarded by setVolume)
VolumeButton(v) ==
    /\ audioRef # NoAudio
    /\ audioRef.listener
    /\ audioRef.volume # v
    /\ audioRef' = [audioRef EXCEPT !.volume = v]
    /\ lastVolumeRef' = IF isCapturingRef /\ v # lastVolumeRef THEN v ELSE lastVolumeRef
    /\ UNCHANGED <<isCapturingRef, audioContextRef, captureDeps>>
    /\ CaptureFrame

NextCapture ==
    \/ \E props \in CaptureProps : CaptureMount(props)
    \/ \E props \in CaptureProps : CaptureRerender(props)
    \/ CaptureUnmount
    \/ \E v \in {3} \cup RemoteVolumes : VolumeButton(v)

SpecCapture == Init /\ [][NextCapture]_vars

----------------------------------------------------------------------------
(* The REST routes over the registry (routes/remotePlayback.ts).  requireAuth *)
(* has resolved the caller's user; a route reads the registry and answers.    *)

DeviceRecord(e) ==
    [deviceId |-> e.deviceId, deviceName |-> e.deviceName, isPlaying |-> e.isPlaying,
     currentTrack |-> e.currentTrack, currentTime |-> e.currentTime, volume |-> e.volume,
     lastSeen |-> e.lastSeen]

Reply(status, body) == [status |-> status, body |-> body]

\* GET /devices
getDevicesReply(reg, userId) ==
    LET devices == getUserDevices(reg, userId) IN
    Reply(200, [i \in 1..Len(devices) |-> DeviceRecord(devices[i])])

\* GET /devices/:deviceId that answers for any registered device
getDeviceNoOwnerCheckMutant(reg, userId, deviceId) ==
    LET device == getDevice(reg, deviceId) IN
    IF device = NoDevice
    THEN Reply(404, [error |-> "Device not found"])
    ELSE Reply(200, DeviceRecord(device))

\* GET /devices/:deviceId
getDeviceReply(reg, userId, deviceId) ==
    LET device == getDevice(reg, deviceId) IN
    IF device = NoDevice \/ device.userId # userId
    THEN Reply(404, [error |-> "Device not found"])
    ELSE Reply(200, DeviceRecord(device))

\* GET /status
getStatusReply(reg, userId) ==
    LET devices == getUserDevices(reg, userId) IN
    Reply(200, [available |-> TRUE, connectedDevices |-> Len(devices),
                activePlayback |-> \E i \in 1..Len(devices) : devices[i].isPlaying])

\* one request handled: the route, the caller, the reply; the maps are only read
RestStep(route, userId, deviceId, reply) ==
    /\ Idle
    /\ lastOp' = [op |-> route, sock |-> undefined,
                  arg |-> [userId |-> userId, deviceId |-> deviceId, reply |-> reply],
                  prev |-> [reg |-> activeDevices, ap |-> userActivePlayer]]
    /\ emits' = <<>>
    /\ UNCHANGED <<serverVars, clientVars, netVars>>

GetDevices(userId) ==
    RestStep("GET /devices", userId, undefined, getDevicesReply(activeDevices, userId))

GetDeviceById(userId, deviceId) ==
    RestStep("GET /devices/:deviceId", userId, deviceId,
             getDeviceReply(activeDevices, userId, deviceId))

GetStatus(userId) ==
    RestStep("GET /status", userId, undefined, getStatusReply(activeDevices, userId))

NextRest ==
    \/ \E s \in Sockets : Connect(s)
    \/ \E s \in Sockets : Disconnect(s)
    \/ \E p \in RegPairs : Register(p[1], p[2], "n1")
    \/ \E p \in OwnPairs : State(p[1], p[2], PlayingSnapshot)
    \/ \E s \in Sockets : DevicesList(s)
    \/ \E u \in Users : GetDevices(u)
    \/ \E u \in Users, d \in DeviceIds : GetDeviceById(u, d)
    \/ \E u \in Users : GetStatus(u)
    \/ Flush

SpecRest == Init /\ [][NextRest]_vars

----------------------------------------------------------------------------
(* The authentication middleware (io.use) and io.on("connection").  The      *)
(* database and the session store are fixed: two API keys, sessions with     *)
(* and without a user, user ids with and without a user row.                 *)

\* prisma.apiKey.findUnique({where: {key}, include: {user}}): the key's user
ApiKeyUser(key) ==
    CASE key = "k1" -> "u1" [] key = "k2" -> "u2" [] OTHER -> null

\* JSON.parse(await redisClient.get(`sess:${sessionId}`)).userId; null where
\* the store has no such session, undefined where the session names no user
SessionUserId(sessionId) ==
    CASE sessionId = "sessA" -> "u1"
      [] sessionId = "sessB" -> "u2"
      [] sessionId = "sessGone" -> "u9"
      [] sessionId = "sessAnon" -> undefined
      [] OTHER -> null

\* prisma.user.findUnique({where: {id}})
FindUser(id) == IF id \in Users THEN id ELSE null

\* the credentials a handshake may carry
ApiKeys == {undefined, "k1", "k2", "kx"}
HeaderApiKeys == {undefined, "k2"}
SessionIds == {undefined, "sessA", "sessB", "sessGone", "sessAnon", "sessNone"}
UserIds == {undefined, "u1", "u2", "u9"}

Handshakes ==
    [apiKey : ApiKeys, headerApiKey : HeaderApiKeys, sessionId : SessionIds, userId : UserIds]

Accepted(u) == [accepted |-> TRUE, user |-> u]
Refused(text) == [accepted |-> FALSE, error |-> text]

\* socket.handshake.auth.apiKey || socket.handshake.headers["x-api-key"]
HandshakeApiKey(h) == IF h.apiKey # undefined THEN h.apiKey ELSE h.headerApiKey

\* the middleware with the direct user id tried before the key and the session
authenticateUserIdFirstMutant(h, throws) ==
    IF throws THEN Refused("Authentication failed")
    ELSE IF h.userId # undefined /\ FindUser(h.userId) # null
    THEN Accepted(FindUser(h.userId))
    ELSE IF HandshakeApiKey(h) # undefined /\ ApiKeyUser(HandshakeApiKey(h)) # null
    THEN Accepted(ApiKeyUser(HandshakeApiKey(h)))
    ELSE IF /\ h.sessionId # undefined
            /\ SessionUserId(h.sessionId) \notin {null, undefined}
            /\ FindUser(SessionUserId(h.sessionId)) # null
    THEN Accepted(FindUser(SessionUserId(h.sessionId)))
    ELSE Refused("Authentication required")

\* io.use(async (socket, next) => ...): API key, then session, then user id;
\* throws says that a lookup threw and the catch branch answered
authenticate(h, throws) ==
    IF throws THEN Refused("Authentication failed")
    ELSE IF HandshakeApiKey(h) # undefined /\ ApiKeyUser(HandshakeApiKey(h)) # null
    THEN Accepted(ApiKeyUser(HandshakeApiKey(h)))
    ELSE IF /\ h.sessionId # undefined
            /\ SessionUserId(h.sessionId) \notin {null, undefined}
            /\ FindUser(SessionUserId(h.sessionId)) # null
    THEN Accepted(FindUser(SessionUserId(h.sessionId)))
    ELSE IF h.userId # undefined /\ FindUser(h.userId) # null
    THEN Accepted(FindUser(h.userId))
    ELSE Refused("Authentication required")

\* a handshake arrives for the socket id s: the middleware runs, and the
\* connection event (handlers attached, room joined) follows if it accepted.
\* The socket ids are named after the user of the connection, so a handshake
\* accepted for s is one that resolved to UserOfSocket(s).
Handshake(s, h, throws) ==
    /\ Idle
    /\ ~connected[s]
    /\ \A i \in 1..Len(activeDevices) : activeDevices[i].socketId # s
    /\ LET r == authenticate(h, throws) IN
          /\ r.accepted => r.user = UserOfSocket(s)
          /\ connected' = [connected EXCEPT ![s] = r.accepted]
          /\ lastOp' = [op |-> "connection", sock |-> s,
                        arg |-> [handshake |-> h, result |-> r],
                        prev |-> [reg |-> activeDevices, ap |-> userActivePlayer]]
    /\ emits' = <<>>
    /\ UNCHANGED <<activeDevices, userActivePlayer, now, lastSweep, clientVars, netVars>>

NextAuth ==
    \/ \E s \in TimedSockets, h \in Handshakes, throws \in BOOLEAN : Handshake(s, h, throws)
    \/ \E s \in TimedSockets : Disconnect(s)
    \/ \E s \in TimedSockets : Register(s, ClientDeviceId(s), "n1")
    \/ \E s \in TimedSockets : State(s, ClientDeviceId(s), PlayingSnapshot)
    \/ \E s \in TimedSockets, d \in TimedDevices : Command(s, d, "next", NoPayload)
    \/ \E s \in TimedSockets, d \in TimedDevices : Transfer(s, d, TRUE)
    \/ \E s \in TimedSockets, d \in TimedDevices \cup {null} : SetActivePlayer(s, d)
    \/ Flush

SpecAuth == Init /\ [][NextAuth]_vars

----------------------------------------------------------------------------
(* Properties.  Notation shared by the statements below.                     *)

\* the user whose connection sent the message the last handler ran on
OpUser == UserOfSocket(lastOp.sock)

\* the registry and the authority of that user when the last handler started
RegBefore == lastOp.prev.reg
AuthorityBefore == lastOp.prev.ap[OpUser]

\* the devices the registry reg holds for the connection s
DevicesOfSocket(reg, s) == {reg[i].deviceId : i \in {j \in 1..Len(reg) : reg[j].socketId = s}}

\* the socket behind a transport handle, if that connection is open
OpenTransport(sid) == {x \in Sockets : x = sid /\ connected[x]}

EmittedEvents == {emits[i].ev : i \in 1..Len(emits)}

\* the client behind s is connected and the registry holds its device for s
ClientIsRegistered(s) ==
    /\ connected[s]
    /\ getDevice(activeDevices, ClientDeviceId(s)) # NoDevice
    /\ getDevice(activeDevices, ClientDeviceId(s)).socketId = s

\* what the server's authority map says of the client behind s
ServerSaysActive(s) ==
    \/ getActivePlayer(userActivePlayer, UserOfSocket(s)) = null
    \/ getActivePlayer(userActivePlayer, UserOfSocket(s)) = ClientDeviceId(s)

----------------------------------------------------------------------------
\* nothing is under way: no handler output undelivered, no message in flight
\* in either direction, no transfer timer pending
Quiescent ==
    /\ Idle
    /\ \A s \in Sockets : upq[s] = <<>> /\ inbox[s] = <<>> /\ timer[s] = NoTimer

\* C1: whenever nothing is in flight, every registered device's local
\* isActivePlayer equals what the server's authority map says of it (null or
\* this device); and while an authority is set (clients never reset it to
\* null), no two registered devices of one user hold isActivePlayer = true
\* together, devices registered after the set included.
C1_SingleAuthority ==
    Quiescent =>
        /\ \A s \in Sockets :
              ClientIsRegistered(s) => (isActivePlayer(s) <=> ServerSaysActive(s))
        /\ \A s, t \in Sockets :
              ( /\ s # t
                /\ UserOfSocket(s) = UserOfSocket(t)
                /\ ClientIsRegistered(s)
                /\ ClientIsRegistered(t)
                /\ getActivePlayer(userActivePlayer, UserOfSocket(s)) # null )
              => ~(isActivePlayer(s) /\ isActivePlayer(t))

----------------------------------------------------------------------------
\* the last handler was a playback:transfer with state, sent by a registered
\* device that has a track, to a registered device of the same user
TransferWithState ==
    /\ lastOp.op = "playback:transfer"
    /\ lastOp.arg.withState
    /\ getDeviceBySocketId(RegBefore, lastOp.sock) # NoDevice
    /\ getDeviceBySocketId(RegBefore, lastOp.sock).currentTrack # null
    /\ getDevice(RegBefore, lastOp.arg.toDeviceId) # NoDevice
    /\ getDevice(RegBefore, lastOp.arg.toDeviceId).userId = OpUser

\* the two commands a transfer with state sends, for source A and destination B
TransferPlaybackTo(A) ==
    [ev |-> "playback:remoteCommand",
     body |-> [command |-> "transferPlayback",
               payload |-> [track |-> A.currentTrack, currentTime |-> A.currentTime,
                            isPlaying |-> A.isPlaying, volume |-> A.volume],
               fromDeviceId |-> A.deviceId]]

PauseTo ==
    [ev |-> "playback:remoteCommand",
     body |-> [command |-> "pause", payload |-> [reason |-> "transferred"]]]

\* the handler emitted transferPlayback to B, then pause to A, and the second
\* half of the transfer, setActivePlayer(B), is the next message of the sender
C2_Emitted ==
    TransferWithState =>
        LET A == getDeviceBySocketId(RegBefore, lastOp.sock)
            B == getDevice(RegBefore, lastOp.arg.toDeviceId)
        IN /\ Len(emits) = 2
           /\ emits[1] = Msg("playback:remoteCommand", {B.socketId}, TransferPlaybackTo(A).body)
           /\ emits[2] = Msg("playback:remoteCommand", {A.socketId}, PauseTo.body)
           /\ upq[lastOp.sock] = <<SetActivePlayerMsg(B.deviceId)>>

\* the step after it hands each command to its receiver
C2_Received ==
    TransferWithState =>
        LET A == getDeviceBySocketId(RegBefore, lastOp.sock)
            B == getDevice(RegBefore, lastOp.arg.toDeviceId)
        IN /\ inbox'[B.socketId] = Append(inbox[B.socketId], TransferPlaybackTo(A))
           /\ inbox'[A.socketId] = Append(inbox[A.socketId], PauseTo)

\* the second half of a transfer was handled: authority is the destination
C2_Completed ==
    ( /\ lastOp.op = "playback:setActivePlayer"
      /\ lastOp.arg.deviceId \in SiblingDeviceIds(lastOp.sock) )
    => getActivePlayer(userActivePlayer, OpUser) = lastOp.arg.deviceId

\* C2: when registered device A, with a track in its snapshot, transfers to
\* registered device B of the same user with withState, the server emits
\* transferPlayback to B before pause {reason: transferred} to A, both are
\* handed to their receivers, and once the transfer's setActivePlayer is
\* handled get(userId) = B.
C2_TransferResult == [][C2_Emitted' /\ C2_Received /\ C2_Completed']_vars

C2_Witness ==
    /\ lastOp.op = "playback:setActivePlayer"
    /\ lastOp.sock = "s1"
    /\ lastOp.arg.deviceId = "d2"
    /\ userActivePlayer["u1"] = "d2"
    /\ inbox["s2"] = <<[ev |-> "playback:remoteCommand",
                        body |-> [command |-> "transferPlayback",
                                  payload |-> [track |-> "T", currentTime |-> 30,
                                               isPlaying |-> TRUE, volume |-> 8],
                                  fromDeviceId |-> "d1"]]>>
    /\ inbox["s1"] = <<PauseTo>>

----------------------------------------------------------------------------
\* C3: whenever the playback:transfer handler emits a command (transferPlayback
\* to the destination, pause to the source), the authority map already holds
\* the destination.
C3_AuthorityFirst ==
    ( /\ lastOp.op = "playback:transfer"
      /\ "playback:remoteCommand" \in EmittedEvents )
    => getActivePlayer(userActivePlayer, OpUser) = lastOp.arg.toDeviceId

----------------------------------------------------------------------------
\* the target of the last playback:command is not registered, or is another user's
CommandOutOfScope ==
    /\ lastOp.op = "playback:command"
    /\ \/ getDevice(RegBefore, lastOp.arg.targetDeviceId) = NoDevice
       \/ getDevice(RegBefore, lastOp.arg.targetDeviceId).userId # OpUser

\* C4: a playback:command whose target is not registered or belongs to another
\* user emits exactly one message, a playback:error to the sender's socket
\* only; no playback:remoteCommand goes to anyone.
C4_CommandScoping ==
    CommandOutOfScope =>
        /\ Len(emits) = 1
        /\ emits[1].ev = "playback:error"
        /\ emits[1].rcpt = {lastOp.sock}

C4_Witness ==
    /\ CommandOutOfScope
    /\ getDevice(RegBefore, lastOp.arg.targetDeviceId) # NoDevice
    /\ connected[getDevice(RegBefore, lastOp.arg.targetDeviceId).socketId]

----------------------------------------------------------------------------
\* the last playback:command came from a connection with a registered device
\* and names a registered device of the same user
CommandInScope ==
    /\ lastOp.op = "playback:command"
    /\ DevicesOfSocket(RegBefore, lastOp.sock) # {}
    /\ getDevice(RegBefore, lastOp.arg.targetDeviceId) # NoDevice
    /\ getDevice(RegBefore, lastOp.arg.targetDeviceId).userId = OpUser

----------------------------------------------------------------------------
\* the idle destination asked for the playback of the playing authority P: the
\* last handler was a playback:transfer with state, sent by the registered
\* device it names, which has no track, while P held the authority
PulledFrom(P) ==
    /\ lastOp.op = "playback:transfer"
    /\ lastOp.arg.withState
    /\ getDeviceBySocketId(RegBefore, lastOp.sock) # NoDevice
    /\ getDeviceBySocketId(RegBefore, lastOp.sock).deviceId = lastOp.arg.toDeviceId
    /\ getDeviceBySocketId(RegBefore, lastOp.sock).currentTrack = null
    /\ P # NoDevice
    /\ P.deviceId = AuthorityBefore
    /\ P.deviceId # lastOp.arg.toDeviceId
    /\ P.userId = OpUser
    /\ P.socketId # lastOp.sock
    /\ connected[P.socketId]
    /\ P.currentTrack # null

\* C6: when the phone is the active player with snapshot {T, 30, playing, 0.8}
\* and the idle laptop requests the transfer phone -> laptop with state, the
\* laptop is sent transferPlayback carrying the phone's snapshot and the phone
\* is sent pause {reason: transferred}.
C6_PulledHandoff ==
    \A d \in DeviceIds :
        PulledFrom(getDevice(RegBefore, d)) =>
            /\ Len(emits) = 2
            /\ emits[1] = Msg("playback:remoteCommand", {lastOp.sock},
                              TransferPlaybackTo(getDevice(RegBefore, d)).body)
            /\ emits[2] = Msg("playback:remoteCommand",
                              {getDevice(RegBefore, d).socketId}, PauseTo.body)

----------------------------------------------------------------------------
\* the last handler was a playback:transfer the server did not reject
TransferAccepted ==
    /\ lastOp.op = "playback:transfer"
    /\ "playback:error" \notin EmittedEvents

\* C7: every accepted transfer sends the source device pause {reason:
\* transferred}, with or without withState, with or without a current track.
C7_PauseAlways ==
    TransferAccepted =>
        \E i \in 1..Len(emits) :
            emits[i] = Msg("playback:remoteCommand",
                           {getDeviceBySocketId(RegBefore, lastOp.sock).socketId},
                           PauseTo.body)

----------------------------------------------------------------------------
\* C8: a transfer, sent by a registered device, whose toDeviceId is not
\* registered is not rejected: its playback:transfer draws no playback:error,
\* and once its playback:setActivePlayer is handled get(userId) = toDeviceId.
C8_UnregisteredTarget ==
    /\ ( /\ lastOp.op = "playback:transfer"
         /\ getDeviceBySocketId(RegBefore, lastOp.sock) # NoDevice
         /\ getDevice(RegBefore, lastOp.arg.toDeviceId) = NoDevice )
       => "playback:error" \notin EmittedEvents
    /\ ( /\ lastOp.op = "playback:setActivePlayer"
         /\ lastOp.arg.deviceId \in SiblingDeviceIds(lastOp.sock)
         /\ getDevice(RegBefore, lastOp.arg.deviceId) = NoDevice )
       => getActivePlayer(userActivePlayer, OpUser) = lastOp.arg.deviceId

----------------------------------------------------------------------------
\* the entries of the user's device list for the device just registered
JustRegistered ==
    SelectSeq(getUserDevices(activeDevices, OpUser),
              LAMBDA e : e.deviceId = lastOp.arg.deviceId)

\* C9: the registry never holds two entries for one deviceId, and after a
\* device:register the user's device list holds exactly one entry for that
\* deviceId, with the name just registered.
C9_IdempotentRegister ==
    /\ \A i, j \in 1..Len(activeDevices) :
          activeDevices[i].deviceId = activeDevices[j].deviceId => i = j
    /\ lastOp.op = "device:register" =>
          /\ Len(JustRegistered) = 1
          /\ JustRegistered[1].deviceName = lastOp.arg.deviceName

C9_Witness ==
    /\ lastOp.op = "device:register"
    /\ getDevice(RegBefore, lastOp.arg.deviceId) # NoDevice
    /\ getDevice(RegBefore, lastOp.arg.deviceId).userId = OpUser
    /\ getDevice(RegBefore, lastOp.arg.deviceId).deviceName # lastOp.arg.deviceName
    /\ getDevice(RegBefore, lastOp.arg.deviceId).socketId # lastOp.sock
    /\ Len(RegBefore) = 2
    /\ getDevice(activeDevices, lastOp.arg.deviceId).deviceName = lastOp.arg.deviceName

----------------------------------------------------------------------------
\* the users the sweep that just ran had a stale device of
UsersSwept ==
    {RegBefore[i].userId : i \in {j \in 1..Len(RegBefore) : IsStale(RegBefore[j])}}

\* C10: after a sweep, no device silent for longer than the stale threshold is
\* left in the registry, and the sweep sends each user it removed a device of,
\* if a connection of that user is open, a devices:list built from what is left.
C10_StaleEviction ==
    lastOp.op = "sweep" =>
        /\ \A i \in 1..Len(activeDevices) : ~IsStale(activeDevices[i])
        /\ \A u \in UsersSwept :
              Room(u) # {} =>
                  \E i \in 1..Len(emits) : emits[i] = broadcastDeviceList(activeDevices, u)

----------------------------------------------------------------------------
\* C11: the authority map changes in no step but a run of the
\* playback:setActivePlayer handler: registration, state report, heartbeat,
\* command, state request, device list, playback:transfer, disconnect, sweep,
\* connection and the clock leave get(userId) as it was for every user.
C11_AuthorityFrame ==
    [][userActivePlayer' # userActivePlayer => lastOp'.op = "playback:setActivePlayer"]_vars

\* the sweep just evicted the device that holds the authority
C11_Witness ==
    /\ lastOp.op = "sweep"
    /\ getActivePlayer(userActivePlayer, "u1") = "d1"
    /\ getDevice(RegBefore, "d1") # NoDevice
    /\ getDevice(activeDevices, "d1") = NoDevice

----------------------------------------------------------------------------
\* the open connections of a user
UserConnections(u) == {x \in Sockets : connected[x] /\ UserOfSocket(x) = u}

\* the last handler was a playback:setActivePlayer naming null, an unregistered
\* device or a device of the sender's user
AuthorityChangeAccepted ==
    /\ lastOp.op = "playback:setActivePlayer"
    /\ \/ lastOp.arg.deviceId = null
       \/ getDevice(RegBefore, lastOp.arg.deviceId) = NoDevice
       \/ getDevice(RegBefore, lastOp.arg.deviceId).userId = OpUser

\* C12: an accepted authority change overwrites get(userId) with the deviceId
\* sent (null included), leaves every other user's authority alone, and emits
\* exactly one message: playback:activePlayer {deviceId} to every open
\* connection of that user, the requester included, and to no other connection.
C12_AuthorityAnnounced ==
    AuthorityChangeAccepted =>
        /\ getActivePlayer(userActivePlayer, OpUser) = lastOp.arg.deviceId
        /\ \A u \in Users \ {OpUser} : userActivePlayer[u] = lastOp.prev.ap[u]
        /\ emits = <<[ev |-> "playback:activePlayer",
                      rcpt |-> UserConnections(OpUser),
                      body |-> [deviceId |-> lastOp.arg.deviceId]]>>

\* s1 resets the authority that d2, registered on s2, held; u2 is connected too
C12_Witness ==
    /\ AuthorityChangeAccepted
    /\ lastOp.sock = "s1"
    /\ lastOp.arg.deviceId = null
    /\ AuthorityBefore = "d2"
    /\ getDevice(RegBefore, "d2") # NoDevice
    /\ getDevice(RegBefore, "d2").socketId = "s2"
    /\ connected["s3"]
    /\ emits[1].rcpt = {"s1", "s2"}

----------------------------------------------------------------------------
\* the last playback:state named a device that is not registered, or that is
\* registered to another user than the sender
StateOutOfScope ==
    /\ lastOp.op = "playback:state"
    /\ \/ getDevice(RegBefore, lastOp.arg.deviceId) = NoDevice
       \/ getDevice(RegBefore, lastOp.arg.deviceId).userId # OpUser

\* C13: such a report is a silent no-op: the registry (snapshots and lastSeen
\* included) and the authority map are as before, and nothing is emitted:
\* no playback:stateUpdate, no error.
C13_StateNoOp ==
    StateOutOfScope =>
        /\ activeDevices = RegBefore
        /\ userActivePlayer = lastOp.prev.ap
        /\ emits = <<>>

\* a report about the other user's connected, idle device, last seen earlier
C13_Witness ==
    /\ StateOutOfScope
    /\ getDevice(RegBefore, lastOp.arg.deviceId) # NoDevice
    /\ getDevice(RegBefore, lastOp.arg.deviceId).currentTrack = null
    /\ getDevice(RegBefore, lastOp.arg.deviceId).lastSeen < now
    /\ connected[getDevice(RegBefore, lastOp.arg.deviceId).socketId]

----------------------------------------------------------------------------
\* the last playback:state named a registered device of the sender's user
StateAccepted ==
    /\ lastOp.op = "playback:state"
    /\ getDevice(RegBefore, lastOp.arg.deviceId) # NoDevice
    /\ getDevice(RegBefore, lastOp.arg.deviceId).userId = OpUser

\* the registry entry e with the reported snapshot snap, seen at time t
WithSnapshot(e, snap, t) ==
    [socketId |-> e.socketId, deviceId |-> e.deviceId, deviceName |-> e.deviceName,
     userId |-> e.userId, isPlaying |-> snap.isPlaying, currentTrack |-> snap.currentTrack,
     currentTime |-> snap.currentTime, volume |-> snap.volume, lastSeen |-> t]

----------------------------------------------------------------------------
\* what the routing rule asks of the outcome r of an action a, for the values
\* isActive and id the getters return and the connection state: run locally
\* and send nothing when active; otherwise never run locally, and send exactly
\* one command, the action's, addressed to the active player
RoutedByRule(r, isActive, id, isConnected, a) ==
    IF isActive
    THEN r.local /\ r.sent = <<>>
    ELSE /\ ~r.local
         /\ id # null
         /\ r.sent = IF isConnected
                     THEN <<[type |-> "playback:command", targetDeviceId |-> id,
                             command |-> WireCommand(a), payload |-> WirePayload(a)]>>
                     ELSE <<>>

----------------------------------------------------------------------------
\* the step is the playback:activePlayer handler of the client behind s
PushHandledOn(s) ==
    /\ Idle
    /\ inbox[s] # <<>>
    /\ Head(inbox[s]).ev = "playback:activePlayer"
    /\ inbox'[s] = Tail(inbox[s])
    /\ lastOp'.op = "recv"
    /\ lastOp'.sock = s

\* C16: when the playback:activePlayer handler has run, getActivePlayerId()
\* returns the pushed deviceId and getIsActivePlayer() what follows from it,
\* before any render: a control action dispatched next routes by the new
\* authority.
C16_NoStaleReads ==
    [][\A s \in SiblingSockets :
          PushHandledOn(s) =>
              /\ getActivePlayerId(s)' = Head(inbox[s]).body.deviceId
              /\ getIsActivePlayer(s)' = (Head(inbox[s]).body.deviceId \in {null, ClientDeviceId(s)})]_vars

----------------------------------------------------------------------------
\* the last step was a handler run for a message of a connection
MessageHandled == lastOp.op \notin {"idle", "sweep", "control", "recv", "transferPlayback"}

\* C17: a message of a connection of user U1 leaves every other user's device
\* list (entries, snapshots, transport handles) and authority as they were,
\* and no message it causes is addressed to a connection of another user;
\* device:register with a deviceId registered to the other user included.
C17_CrossUserIsolation ==
    MessageHandled =>
        \A u \in Users \ {OpUser} :
            /\ getUserDevices(activeDevices, u) = getUserDevices(RegBefore, u)
            /\ getActivePlayer(userActivePlayer, u) = getActivePlayer(lastOp.prev.ap, u)
            /\ \A i \in 1..Len(emits) : \A x \in emits[i].rcpt : UserOfSocket(x) # u

----------------------------------------------------------------------------
\* C18: after the disconnect of a connection that had registered devices, no
\* registry entry holds that connection's socket id any more (whether it had
\* registered one deviceId or several), and exactly one message was emitted:
\* a devices:list of what is left, to the user's remaining connections.
C18_DisconnectCleansUp ==
    ( /\ lastOp.op = "disconnect"
      /\ DevicesOfSocket(RegBefore, lastOp.sock) # {} )
    => /\ \A i \in 1..Len(activeDevices) : activeDevices[i].socketId # lastOp.sock
       /\ emits = <<[ev |-> "devices:list",
                     rcpt |-> UserConnections(OpUser) \ {lastOp.sock},
                     body |-> Summaries(getUserDevices(activeDevices, OpUser))]>>

----------------------------------------------------------------------------
\* C19: a device:heartbeat sets lastSeen of the device it names to the current
\* time if that device is registered to the sender's user, and changes nothing
\* else: every other entry and field, the number of entries (an unknown
\* deviceId creates none) and the authority map are as before, and nothing
\* is emitted.
C19_HeartbeatEffect ==
    lastOp.op = "device:heartbeat" =>
        /\ Len(activeDevices) = Len(RegBefore)
        /\ \A i \in 1..Len(RegBefore) :
              activeDevices[i] =
                  IF /\ RegBefore[i].deviceId = lastOp.arg.deviceId
                     /\ RegBefore[i].userId = OpUser
                  THEN [RegBefore[i] EXCEPT !.lastSeen = now]
                  ELSE RegBefore[i]
        /\ userActivePlayer = lastOp.prev.ap
        /\ emits = <<>>

\* a heartbeat that moves lastSeen of the sender's device, the other user's
\* device being registered too
C19_Witness ==
    /\ lastOp.op = "device:heartbeat"
    /\ Len(RegBefore) = 2
    /\ getDevice(RegBefore, lastOp.arg.deviceId) # NoDevice
    /\ getDevice(RegBefore, lastOp.arg.deviceId).userId = OpUser
    /\ getDevice(RegBefore, lastOp.arg.deviceId).lastSeen < now
    /\ getDevice(activeDevices, lastOp.arg.deviceId).lastSeen = now

----------------------------------------------------------------------------
\* the device the registry held for the sending connection
SenderDevice == getDeviceBySocketId(RegBefore, lastOp.sock)

\* the message comes from a registered device: its connection has a registry
\* entry, and a message that names its sender names that device
FromRegisteredDevice(ops) ==
    /\ lastOp.op \in ops
    /\ SenderDevice # NoDevice
    /\ lastOp.op \in {"device:heartbeat", "playback:state"} =>
           lastOp.arg.deviceId = SenderDevice.deviceId

InboundMessages ==
    {"device:heartbeat", "playback:state", "playback:command",
     "playback:requestState", "devices:list", "playback:transfer",
     "playback:setActivePlayer"}

\* C20: every inbound message from a registered device (heartbeat,
\* playback:state, playback:command, playback:requestState, devices:list,
\* playback:transfer, playback:setActivePlayer) leaves that device's lastSeen
\* equal to the current time.
C20_LastSeenFreshness ==
    FromRegisteredDevice(InboundMessages) =>
        /\ getDevice(activeDevices, SenderDevice.deviceId) # NoDevice
        /\ getDevice(activeDevices, SenderDevice.deviceId).lastSeen = now

----------------------------------------------------------------------------
\* the device d is registered, to another user than the sender of the last message
OtherUsers(d) ==
    /\ getDevice(RegBefore, d) # NoDevice
    /\ getDevice(RegBefore, d).userId # OpUser

\* the last handler ran on a request its check turns down: a playback:command
\* whose target is not registered or is another user's, a playback:transfer
\* from a connection without a device or to a device that is not registered
\* or is another user's, a playback:setActivePlayer naming another user's device
RequestRejected ==
    \/ CommandOutOfScope
    \/ /\ lastOp.op = "playback:transfer"
       /\ \/ getDeviceBySocketId(RegBefore, lastOp.sock) = NoDevice
          \/ getDevice(RegBefore, lastOp.arg.toDeviceId) = NoDevice
          \/ OtherUsers(lastOp.arg.toDeviceId)
    \/ /\ lastOp.op = "playback:setActivePlayer"
       /\ lastOp.arg.deviceId # null
       /\ OtherUsers(lastOp.arg.deviceId)

\* C21: a rejected playback:command, playback:transfer or
\* playback:setActivePlayer emits exactly one message, a playback:error whose
\* only receiver is the sender's connection; the registry and the authority
\* map are as before and the sender's connection stays open.
C21_ErrorIsLocal ==
    RequestRejected =>
        /\ Len(emits) = 1
        /\ emits[1].ev = "playback:error"
        /\ emits[1].rcpt = {lastOp.sock}
        /\ activeDevices = RegBefore
        /\ userActivePlayer = lastOp.prev.ap
        /\ connected[lastOp.sock]

\* s1 asks for the authority of a device of u2 while d1 holds it; the other
\* connection of u1 and the connection of u2 are open
C21_Witness ==
    /\ RequestRejected
    /\ lastOp.op = "playback:setActivePlayer"
    /\ lastOp.sock = "s1"
    /\ AuthorityBefore = "d1"
    /\ connected["s2"]
    /\ connected["s3"]
    /\ emits = <<ErrorTo("s1", "Device not authorized")>>

----------------------------------------------------------------------------
\* the last playback:setActivePlayer took effect: the authority of the
\* sender's user is the deviceId sent and it was broadcast to the user's room
AuthoritySetAndBroadcast ==
    /\ getActivePlayer(userActivePlayer, OpUser) = lastOp.arg.deviceId
    /\ \E i \in 1..Len(emits) :
          emits[i] = Msg("playback:activePlayer", Room(OpUser),
                         [deviceId |-> lastOp.arg.deviceId])

\* C22 as stated: playback:setActivePlayer with any deviceId sets get(userId)
\* to that value and broadcasts it; the registry is not consulted.
C22_NoValidation ==
    lastOp.op = "playback:setActivePlayer" => AuthoritySetAndBroadcast

\* C22: playback:setActivePlayer does not ask for the deviceId to be
\* registered: with null, or a deviceId that is not registered, or one
\* registered to the sender's user, it sets get(userId) to that value and
\* broadcasts it; only a deviceId registered to another user is turned down,
\* and then the authority stays and nothing is broadcast.
C22_PresenceNotRequired ==
    lastOp.op = "playback:setActivePlayer" =>
        IF lastOp.arg.deviceId # null /\ OtherUsers(lastOp.arg.deviceId)
        THEN /\ userActivePlayer = lastOp.prev.ap
             /\ "playback:activePlayer" \notin EmittedEvents
        ELSE AuthoritySetAndBroadcast

\* the authority moves from registered d1 to d2, which is not registered and
\* whose connection is closed
C22_Witness ==
    /\ lastOp.op = "playback:setActivePlayer"
    /\ lastOp.sock = "s1"
    /\ lastOp.arg.deviceId = "d2"
    /\ getDevice(RegBefore, "d2") = NoDevice
    /\ ~connected["s2"]
    /\ AuthorityBefore = "d1"
    /\ getDevice(RegBefore, "d1") # NoDevice
    /\ userActivePlayer["u1"] = "d2"

----------------------------------------------------------------------------
\* the deviceIds the registry reg holds for user u
RegisteredIds(reg, u) == {reg[i].deviceId : i \in {j \in 1..Len(reg) : reg[j].userId = u}}

\* the last handler changed the set of devices registered to user u, or
\* registered a device for u again
DevicesChanged(u) ==
    /\ lastOp.op \notin {"idle", "control", "recv", "transferPlayback"}
    /\ \/ RegisteredIds(activeDevices, u) # RegisteredIds(RegBefore, u)
       \/ lastOp.op = "device:register" /\ OpUser = u

\* the handler emitted, to the connection s, the device list of user u as the
\* registry now holds it
SentCurrentList(s, u) ==
    \E i \in 1..Len(emits) :
        /\ emits[i].ev = "devices:list"
        /\ s \in emits[i].rcpt
        /\ emits[i].body = Summaries(getUserDevices(activeDevices, u))

\* C23: after every change of a user's set of registered devices (register,
\* re-register, disconnect, eviction, takeover of the entry by another
\* registration), every open connection of that user is sent a devices:list
\* whose entries are exactly the devices registered to that user then.
C23_ListOnChange ==
    \A u \in Users :
        DevicesChanged(u) => \A s \in Room(u) : SentCurrentList(s, u)

----------------------------------------------------------------------------
\* the entries of a device list all name devices the registry holds for user u
OnlyDevicesOf(list, u) ==
    \A k \in 1..Len(list) : list[k].deviceId \in RegisteredIds(activeDevices, u)

\* C24: what is handed to a caller holds only devices of the caller's user:
\* every devices:list emitted (reply or broadcast) lists, for each of its
\* receivers, the devices registered to that receiver's user and no other;
\* GET /devices lists the caller's devices only; GET /devices/:deviceId
\* answers 200 with the record only for a device of the caller's user, and
\* for another user's device the very answer it gives for a deviceId that is
\* not registered (404); GET /status counts the caller's devices only.
C24_OwnerScopedVisibility ==
    /\ \A i \in 1..Len(emits) :
          emits[i].ev = "devices:list" =>
              \A x \in emits[i].rcpt :
                  /\ OnlyDevicesOf(emits[i].body, UserOfSocket(x))
                  /\ Len(emits[i].body) = Cardinality(RegisteredIds(activeDevices, UserOfSocket(x)))
    /\ lastOp.op = "GET /devices" =>
          /\ lastOp.arg.reply.status = 200
          /\ OnlyDevicesOf(lastOp.arg.reply.body, lastOp.arg.userId)
          /\ Len(lastOp.arg.reply.body)
                = Cardinality(RegisteredIds(activeDevices, lastOp.arg.userId))
    /\ lastOp.op = "GET /devices/:deviceId" =>
          IF lastOp.arg.deviceId \in RegisteredIds(activeDevices, lastOp.arg.userId)
          THEN /\ lastOp.arg.reply.status = 200
               /\ lastOp.arg.reply.body = DeviceRecord(getDevice(activeDevices, lastOp.arg.deviceId))
          ELSE /\ lastOp.arg.reply.status = 404
               /\ lastOp.arg.reply
                     = getDeviceReply(MapDelete(activeDevices, lastOp.arg.deviceId),
                                      lastOp.arg.userId, lastOp.arg.deviceId)
    /\ lastOp.op = "GET /status" =>
          lastOp.arg.reply.body.connectedDevices
              = Cardinality(RegisteredIds(activeDevices, lastOp.arg.userId))

\* u1, with a device of its own registered, looks up a registered device of
\* u2 and is answered 404
C24_Witness ==
    /\ lastOp.op = "GET /devices/:deviceId"
    /\ lastOp.arg.userId = "u1"
    /\ RegisteredIds(activeDevices, "u1") # {}
    /\ lastOp.arg.deviceId \in RegisteredIds(activeDevices, "u2")
    /\ lastOp.arg.reply.status = 404

----------------------------------------------------------------------------
\* the users the three credential forms of a handshake resolve to, in the
\* order API key, session id, direct user id; null where a form is absent or
\* resolves to no existing user
ResolvedBy(h) ==
    << IF h.apiKey # undefined THEN ApiKeyUser(h.apiKey)
       ELSE IF h.headerApiKey # undefined THEN ApiKeyUser(h.headerApiKey) ELSE null,
       IF h.sessionId \in {"sessA", "sessB"} THEN SessionUserId(h.sessionId) ELSE null,
       IF h.userId \in Users THEN h.userId ELSE null >>

\* the messages of a connection the server has handlers for
ConnectionMessages ==
    {"device:register", "playback:state", "playback:command", "playback:requestState",
     "devices:list", "playback:transfer", "playback:setActivePlayer", "device:heartbeat",
     "disconnect"}

\* after a handshake: the connection is open only if a form resolved, and
\* then as the user of the first form that did; refused if none did
C25_Gate ==
    lastOp.op = "connection" =>
        LET r == ResolvedBy(lastOp.arg.handshake) IN
        /\ connected[lastOp.sock] = lastOp.arg.result.accepted
        /\ lastOp.arg.result.accepted =>
              /\ \E k \in 1..3 : r[k] # null
              /\ \A k \in 1..3 :
                    (r[k] # null /\ \A j \in 1..(k - 1) : r[j] = null)
                        => lastOp.arg.result.user = r[k]
        /\ (\A k \in 1..3 : r[k] = null) => ~connected[lastOp.sock]

\* C25: a connection is accepted only if one of API key, session id and
\* direct user id, tried in that order, resolves to an existing user (and
\* then as the user of the first that does); a handshake none of whose forms
\* resolves is refused; and the server handles a device, state, command,
\* transfer or authority message only of a connection that was accepted.
C25_AuthenticationGate ==
    [][/\ C25_Gate'
       /\ lastOp'.op \in ConnectionMessages /\ lastOp' # lastOp => connected[lastOp'.sock]]_vars

\* a handshake with an unknown API key, a session whose user is gone and the
\* user id of u2 was accepted as u2
C25_Witness ==
    /\ lastOp.op = "connection"
    /\ lastOp.arg.handshake.apiKey = "kx"
    /\ lastOp.arg.handshake.headerApiKey = "k2"
    /\ lastOp.arg.handshake.sessionId = "sessGone"
    /\ lastOp.arg.handshake.userId = "u2"
    /\ connected[lastOp.sock]
    /\ lastOp.arg.result.user = "u2"
    /\ connected["s1"]

----------------------------------------------------------------------------
\* the client behind lastOp.sock has just handled a playback:activePlayer push
PushHandled ==
    /\ lastOp.op = "recv"
    /\ lastOp.arg.ev = "playback:activePlayer"

\* the deviceId the push named
Pushed == lastOp.arg.body.deviceId

\* C26: a client that handles a playback:activePlayer push naming its own
\* deviceId records itself as the active player (activePlayerId is its id,
\* isActivePlayer follows) and invokes the became-active hook, once; for a
\* push naming another device or null the became-active hook is not invoked.
C26_BecameActiveHook ==
    PushHandled =>
        IF Pushed = ClientDeviceId(lastOp.sock)
        THEN /\ activePlayerId[lastOp.sock] = ClientDeviceId(lastOp.sock)
             /\ isActivePlayer(lastOp.sock)
             /\ lastOp.arg.hooks = <<"becomeActivePlayer">>
        ELSE \A i \in 1..Len(lastOp.arg.hooks) : lastOp.arg.hooks[i] # "becomeActivePlayer"

\* s1, which held d2 for the active player, is pushed its own id
C26_Witness ==
    /\ PushHandled
    /\ lastOp.sock = "s1"
    /\ Pushed = "d1"
    /\ lastOp.prev.activePlayerId = "d2"
    /\ lastOp.arg.hooks = <<"becomeActivePlayer">>

----------------------------------------------------------------------------
\* the client held itself for the active player before the push: the
\* activePlayerId it had was its own id or null
WasActivePlayer ==
    lastOp.prev.activePlayerId \in {null, ClientDeviceId(lastOp.sock)}

\* C27: a client that handles a playback:activePlayer push naming another
\* device X invokes the stop-playback hook exactly when it held itself for the
\* active player before (its activePlayerId was its own id or null), and ends
\* with activePlayerId = X; a client that already held another device for the
\* active player does not invoke the hook again.
C27_LostAuthorityHook ==
    ( /\ PushHandled
      /\ Pushed \notin {null, ClientDeviceId(lastOp.sock)} )
    => /\ activePlayerId[lastOp.sock] = Pushed
       /\ ("stopPlayback" \in {lastOp.arg.hooks[i] : i \in 1..Len(lastOp.arg.hooks)})
              <=> WasActivePlayer

----------------------------------------------------------------------------
\* a transferPlayback command, as a client receives it
IsTransferCommand(m) ==
    m.ev = "playback:remoteCommand" /\ m.body.command = "transferPlayback"

\* the step is a call of becomeActivePlayer on the client behind s: the
\* client, connected and staying so, emits without any handler having run
BecomeActivePlayerCalled(s) ==
    /\ connected[s]
    /\ connected'[s]
    /\ lastOp' = lastOp
    /\ Len(upq'[s]) > Len(upq[s])

\* the server has just handled the playback:setActivePlayer by which the
\* device of the sending connection names itself
SelfClaimHandled ==
    /\ lastOp.op = "playback:setActivePlayer"
    /\ lastOp.arg.deviceId = ClientDeviceId(lastOp.sock)

\* what the server did with it: the authority is D, every open connection of
\* the user is sent playback:activePlayer {D}, and nothing else is sent
C28_Claimed ==
    SelfClaimHandled =>
        /\ getActivePlayer(userActivePlayer, OpUser) = lastOp.arg.deviceId
        /\ emits = <<[ev |-> "playback:activePlayer", rcpt |-> UserConnections(OpUser),
                      body |-> [deviceId |-> lastOp.arg.deviceId]]>>

\* what each client does with the push: D invokes the became-active hook,
\* every other device the stop-playback hook
C28_Hooks ==
    (PushHandled /\ Pushed # null) =>
        lastOp.arg.hooks = IF Pushed = ClientDeviceId(lastOp.sock)
                           THEN <<"becomeActivePlayer">> ELSE <<"stopPlayback">>

\* no transferPlayback command is emitted, in flight or received
C28_NoTransferCommand ==
    /\ \A i \in 1..Len(emits) : ~IsTransferCommand(emits[i])
    /\ \A s \in Sockets : \A i \in 1..Len(inbox[s]) : ~IsTransferCommand(inbox[s][i])
    /\ lastOp.op = "recv" => ~IsTransferCommand(lastOp.arg)

----------------------------------------------------------------------------
\* the playback:transfer requests among the messages q
RECURSIVE TransferRequests(_)
TransferRequests(q) ==
    IF q = <<>> THEN 0
    ELSE (IF Head(q).type = "playback:transfer" THEN 1 ELSE 0) + TransferRequests(Tail(q))

\* the step is a call of transferPlayback on the client behind s: the 50 ms
\* timer is armed
TransferPlaybackCalled(s) == timer[s] = NoTimer /\ timer'[s] # NoTimer

\* the step puts a playback:transfer request of s on the wire
TransferRequested(s) == TransferRequests(upq'[s]) > TransferRequests(upq[s])

\* (1) the call moves the local authority to the destination and invokes the
\* stop hook of the source, and sends nothing
C29_SilencedAtCall ==
    \A s \in SiblingSockets :
        TransferPlaybackCalled(s) =>
            /\ lastOp'.op = "transferPlayback" /\ lastOp'.sock = s
            /\ lastOp'.arg.hooks = <<"stopPlayback">>
            /\ activePlayerId'[s] = timer'[s].toDeviceId
            /\ (~isActivePlayer(s))'
            /\ upq'[s] = upq[s]

\* (2) the requests of the transfer leave only when that timer fires, the
\* authority change after the transfer request
C29_RequestedAfterCall ==
    \A s \in SiblingSockets :
        TransferRequested(s) =>
            /\ timer[s] # NoTimer /\ timer'[s] = NoTimer
            /\ upq'[s] = upq[s] \o <<TransferMsg(timer[s].toDeviceId, timer[s].withState),
                                     SetActivePlayerMsg(timer[s].toDeviceId)>>

\* (3) the server emits a transferPlayback command only on handling such a
\* request, to the destination, naming the requesting device as the source
C29_CommandAfterRequest ==
    \A i \in 1..Len(emits) :
        IsTransferCommand(emits[i]) =>
            /\ lastOp.op = "playback:transfer"
            /\ emits[i].body.fromDeviceId = ClientDeviceId(lastOp.sock)
            /\ emits[i].rcpt \subseteq
                   {s \in Sockets : getDevice(activeDevices, lastOp.arg.toDeviceId).socketId = s}

\* C29: in every transfer the stop hook of the source (the device that
\* requests the transfer) has been invoked, and its activePlayerId names the
\* destination, before the destination receives the transferPlayback command
\* or the push that names it: the call does both and sends nothing, the
\* requests leave when its timer fires, and the command is emitted only by
\* the handler of that request.
C29_SourceSilencedFirst ==
    [][C29_SilencedAtCall /\ C29_RequestedAfterCall /\ C29_CommandAfterRequest']_vars

\* d2 handles the transferPlayback command of d1's transfer while d1 holds d2
\* for the active player
C29_Witness ==
    /\ lastOp.op = "recv"
    /\ lastOp.sock = "s2"
    /\ IsTransferCommand(lastOp.arg)
    /\ lastOp.arg.body.fromDeviceId = "d1"
    /\ activePlayerId["s1"] = "d2"

----------------------------------------------------------------------------
\* C30: a client whose activePlayerId is null computes isActivePlayer = true
\* and runs the control actions dispatched on it on its local engine; on
\* handling a push of null it invokes no hook.
C30_NullIsLocal ==
    /\ \A s \in SiblingSockets : activePlayerId[s] = null => isActivePlayer(s)
    /\ (lastOp.op = "control" /\ activePlayerId[lastOp.sock] = null) => lastOp.arg.local
    /\ (PushHandled /\ Pushed = null) => lastOp.arg.hooks = <<>>

\* the two parts of it that do not go through the refs of the controls
C30_NullPushNoHook ==
    /\ \A s \in SiblingSockets : activePlayerId[s] = null => isActivePlayer(s)
    /\ (PushHandled /\ Pushed = null) =>
           (lastOp.arg.hooks = <<>> /\ activePlayerId[lastOp.sock] = null)

----------------------------------------------------------------------------
\* the entry of RegBefore is still in the registry, as it was
Kept(e) == getDevice(activeDevices, e.deviceId) = e

\* C31: a sweep removes no device whose lastSeen is within the stale
\* threshold of 5 minutes, so the registered device of a connection that
\* stays open and heartbeats at every interval is never removed by a sweep.
C31_OnlyStaleEvicted ==
    lastOp.op = "sweep" =>
        /\ \A i \in 1..Len(RegBefore) :
              RegBefore[i].lastSeen >= now - StaleMinutes => Kept(RegBefore[i])
        /\ (connected[LiveSocket] /\ getDeviceBySocketId(RegBefore, LiveSocket) # NoDevice)
               => Kept(getDeviceBySocketId(RegBefore, LiveSocket))

\* a sweep late in the run removes the silent device and keeps the live one,
\* registered since the first minute
C31_Witness ==
    /\ lastOp.op = "sweep"
    /\ now >= StaleMinutes + 1
    /\ connected[LiveSocket]
    /\ getDevice(activeDevices, ClientDeviceId(LiveSocket)) # NoDevice
    /\ getDevice(RegBefore, ClientDeviceId(SilentSocket)) # NoDevice
    /\ getDevice(activeDevices, ClientDeviceId(SilentSocket)) = NoDevice

----------------------------------------------------------------------------
\* C32: with every device of the user connected and registered before the
\* first authority request, and requests of the devices interleaved in any
\* order, once nothing is in flight and no transfer timer is pending every
\* device's local activePlayerId equals the server's get(userId).
C32_Convergence ==
    (Quiescent /\ AllPresent) =>
        \A s \in SiblingSockets :
            activePlayerId[s] = getActivePlayer(userActivePlayer, "u1")

\* both devices have settled on d1
C32_Witness ==
    /\ Quiescent
    /\ AllPresent
    /\ getActivePlayer(userActivePlayer, "u1") = "d1"
    /\ activePlayerId["s1"] = "d1"
    /\ activePlayerId["s2"] = "d1"

----------------------------------------------------------------------------
\* the step is the timer of a transferPlayback call on s that finds the
\* socket disconnected: the request is dropped, nothing is emitted
RequestDropped(s) ==
    /\ timer[s] # NoTimer
    /\ timer'[s] = NoTimer
    /\ ~connected[s]
    /\ upq'[s] = upq[s]

\* C33: when a transfer request fails because the socket is disconnected as
\* the 50 ms timer fires, the requesting client's activePlayerId does not stay
\* at the requested id: it equals the server's get(userId).
C33_FailedRequestUndone ==
    [][\A s \in SiblingSockets :
          RequestDropped(s) =>
              activePlayerId'[s] = getActivePlayer(userActivePlayer', UserOfSocket(s))]_vars

----------------------------------------------------------------------------
\* a control action has just been dispatched on a registered client while
\* nothing was in flight: every message sent before it has been delivered
RoutedAtRest ==
    /\ lastOp.op = "control"
    /\ ClientIsRegistered(lastOp.sock)
    /\ \A s \in Sockets : inbox[s] = <<>> /\ timer[s] = NoTimer
    /\ \A s \in Sockets \ {lastOp.sock} : upq[s] = <<>>

\* C34: a client that has connected and registered holds the server's
\* get(userId) as its local activePlayerId by the time it routes a control
\* action.
C34_JoinerInAgreement ==
    RoutedAtRest =>
        activePlayerId[lastOp.sock] = getActivePlayer(userActivePlayer, OpUser)

----------------------------------------------------------------------------
\* the last handler registered a deviceId that was bound to another
\* connection of the same user: the device has moved to a new connection
MovedToNewConnection ==
    /\ lastOp.op = "device:register"
    /\ getDevice(RegBefore, lastOp.arg.deviceId) # NoDevice
    /\ getDevice(RegBefore, lastOp.arg.deviceId).userId = OpUser
    /\ getDevice(RegBefore, lastOp.arg.deviceId).socketId # lastOp.sock

\* the last handler was the disconnect of a connection no device is bound to
\* any more
LateDisconnect ==
    /\ lastOp.op = "disconnect"
    /\ DevicesOfSocket(RegBefore, lastOp.sock) = {}

----------------------------------------------------------------------------
\* the snapshot fields of a registry entry
SnapshotOf(e) ==
    [isPlaying |-> e.isPlaying, currentTrack |-> e.currentTrack,
     currentTime |-> e.currentTime, volume |-> e.volume]

\* the snapshot of a device that has reported nothing
ResetSnapshot ==
    [isPlaying |-> FALSE, currentTrack |-> null, currentTime |-> 0, volume |-> DefaultVolume]

\* the last handler registered a deviceId the registry already held
ReRegistered ==
    /\ lastOp.op = "device:register"
    /\ getDevice(RegBefore, lastOp.arg.deviceId) # NoDevice

\* after it, the entry holds the reset snapshot
C36_Reset ==
    ReRegistered => SnapshotOf(getDevice(activeDevices, lastOp.arg.deviceId)) = ResetSnapshot

\* a transfer with state from a device whose snapshot has no track emits no
\* command at all
C36_NothingToHandOver ==
    ( /\ lastOp.op = "playback:transfer"
      /\ lastOp.arg.withState
      /\ getDeviceBySocketId(RegBefore, lastOp.sock) # NoDevice
      /\ SnapshotOf(getDeviceBySocketId(RegBefore, lastOp.sock)) = ResetSnapshot )
    => "playback:remoteCommand" \notin EmittedEvents

----------------------------------------------------------------------------
\* the last handler was a playback:state that names a registered device bound
\* to another connection than the sender's
StateForAnotherDevice ==
    /\ lastOp.op = "playback:state"
    /\ getDevice(RegBefore, lastOp.arg.deviceId) # NoDevice
    /\ getDevice(RegBefore, lastOp.arg.deviceId).socketId # lastOp.sock

\* C37: a playback:state that names a device bound to another connection,
\* a sibling of the same user included, leaves that device's snapshot as it
\* was and is not broadcast in its name.
C37_SelfReported ==
    StateForAnotherDevice =>
        /\ SnapshotOf(getDevice(activeDevices, lastOp.arg.deviceId))
               = SnapshotOf(getDevice(RegBefore, lastOp.arg.deviceId))
        /\ "playback:stateUpdate" \notin EmittedEvents

\* the part of it that holds: such a message from a connection of another
\* user changes nothing
C37_OtherUserIgnored ==
    (StateForAnotherDevice /\ getDevice(RegBefore, lastOp.arg.deviceId).userId # OpUser) =>
        /\ activeDevices = RegBefore
        /\ emits = <<>>

----------------------------------------------------------------------------
\* the server has just handled a heartbeat of a client for its own device,
\* sent over the connection the client registered on
HeartbeatOfRegistered ==
    /\ lastOp.op = "device:heartbeat"
    /\ lastOp.arg.deviceId = ClientDeviceId(lastOp.sock)
    /\ connected[lastOp.sock]
    /\ upq[lastOp.sock] = <<>>

\* C38: a device that has registered over a connection that is still open and
\* that is sending heartbeats is in its user's device list, also when its
\* heartbeats resume after the sweeper has evicted it.
C38_LiveDeviceListed ==
    HeartbeatOfRegistered =>
        \E i \in 1..Len(getUserDevices(activeDevices, OpUser)) :
            getUserDevices(activeDevices, OpUser)[i].deviceId = lastOp.arg.deviceId

----------------------------------------------------------------------------
\* C39: in every state of the volume capture, the capture flag is set only
\* while the silent audio element exists with its volumechange listener
\* attached, and while this device is not the active player and the active
\* player has a track loaded the element exists.
C39_CaptureConsistent ==
    /\ isCapturingRef => (audioRef # NoAudio /\ audioRef.listener)
    /\ (captureDeps # Unmounted /\ shouldCapture(captureDeps)) => audioRef # NoAudio

----------------------------------------------------------------------------
\* the control action just dispatched ran on the local engine although the
\* getter said this device is not the active player: the fallback branch
FallbackTaken ==
    /\ lastOp.op = "control"
    /\ ~lastOp.prev.isActivePlayer
    /\ lastOp.arg.local

====
